---- MODULE Spec2Model ----
(***************************************************************************)
(* Emergency analysis pipeline of the Emergency Response AI System:        *)
(* the quota tracker (backend/app/cost_protection.py), the result cache    *)
(* and analysis service (backend/app/services.py) and the request          *)
(* handlers that compose them (backend/app/routes.py).                     *)
(*                                                                         *)
(* Handlers are coroutines of one event loop: the code between two         *)
(* suspension points runs atomically, so each action below is one such     *)
(* stretch.  The only suspension point of /emergency/analyze is the        *)
(* provider request (session.post in _ai_analysis).                        *)
(***************************************************************************)
EXTENDS Integers, Sequences, FiniteSets, Bags, TLC

VARIABLES
    env_DEMO_MODE,   \* os.environ["DEMO_MODE"]: "unset", "true" or "false"
    openai_api_key,  \* EmergencyAnalysisService.openai_api_key is set
    store,           \* parsed content of api_usage.json: usage and daily_limits
    storeOK,         \* api_usage.json can be opened and parsed
    now,             \* datetime.now(), in seconds since the service started
    cache,           \* response_cache.cache: key -> (data, expires)
    reqs,            \* the /emergency/analyze requests awaiting the provider (a bag)
    last,            \* the request answered by the last step, with its answer
    started,         \* number of requests received so far
    callsToday,      \* requests sent to the provider on the current day
    clean,           \* today: demo mode always off, store always readable, no reset
    logged,          \* records of level WARNING or ERROR the last step logged
    tpc,             \* position of each concurrent track_request caller
    tdata,           \* the data each concurrent track_request caller has read
    arg,             \* the arguments of the classifier function being called
    ret              \* what that call returned

vars == << env_DEMO_MODE, openai_api_key, store, storeOK, now, cache,
           reqs, last, started, callsToday, clean, logged, tpc, tdata,
           arg, ret >>

-----------------------------------------------------------------------------
(* Bounds of the model *)

NumHandlers == 2     \* requests that may await the provider together
MaxRequests == 2     \* requests received in one behaviour
MaxTicks == 2        \* the clock stops after this many ticks
TickSeconds == 150   \* seconds in one tick of the clock
TicksPerDay == 2     \* midnight falls every so many ticks
NumTrackers == 3     \* concurrent track_request callers
MaxCount == 2        \* direct track_request calls stop at this count of a day

(* Program constants *)

CACHE_TTL_SECONDS == 300    \* ttl_seconds of response_cache.set
MESSAGE_PREFIX_LEN == 100   \* message.lower()[:100] in the cache key
MAX_FIRST_AID == 6          \* base_tips[:6], first_aid_steps[:6]

None == "<None>"            \* Python's None

-----------------------------------------------------------------------------
(* Generic helpers *)

Min(a, b) == IF a < b THEN a ELSE b

Range(s) == { s[i] : i \in DOMAIN s }

\* s[:n]
Take(s, n) == SubSeq(s, 1, Min(n, Len(s)))

\* list.insert(i, x) for 0 <= i (Python clamps i to len)
Insert(s, i, x) ==
    LET k == Min(i, Len(s))
    IN  SubSeq(s, 1, k) \o << x >> \o SubSeq(s, k + 1, Len(s))

\* dict.get(k, default)
Get(d, k, default) == IF k \in DOMAIN d THEN d[k] ELSE default

\* d[k] = v
Put(d, k, v) == [ x \in DOMAIN d \cup {k} |-> IF x = k THEN v ELSE d[x] ]

\* del d[k]
Del(d, k) == [ x \in DOMAIN d \ {k} |-> d[x] ]

EmptyDict == [ x \in {} |-> None ]

-----------------------------------------------------------------------------
(* Text: a str is a sequence of one-character strings *)

\* The lower-case letter of each upper-case ASCII letter
lower_of ==
    [ A |-> "a", B |-> "b", C |-> "c", D |-> "d", E |-> "e", F |-> "f",
      G |-> "g", H |-> "h", I |-> "i", J |-> "j", K |-> "k", L |-> "l",
      M |-> "m", N |-> "n", O |-> "o", P |-> "p", Q |-> "q", R |-> "r",
      S |-> "s", T |-> "t", U |-> "u", V |-> "v", W |-> "w", X |-> "x",
      Y |-> "y", Z |-> "z" ]

LowerChar(c) == IF c \in DOMAIN lower_of THEN lower_of[c] ELSE c

\* str.lower()
Lower(s) == [ i \in 1..Len(s) |-> LowerChar(s[i]) ]

\* word in text
Contains(text, word) ==
    \E i \in 1..(Len(text) - Len(word) + 1) :
        SubSeq(text, i, i + Len(word) - 1) = word

\* any(word in text for word in words)
AnyIn(words, text) == \E i \in DOMAIN words : Contains(text, words[i])

-----------------------------------------------------------------------------
(* The rule-based classifier *)

critical_words ==
    << <<"u", "n", "c", "o", "n", "s", "c", "i", "o", "u", "s">>,
       <<"n", "o", "t", " ", "b", "r", "e", "a", "t", "h", "i", "n", "g">>,
       <<"s", "e", "v", "e", "r", "e", " ", "b", "l", "e", "e", "d", "i", "n", "g">>,
       <<"c", "h", "e", "s", "t", " ", "p", "a", "i", "n">>,
       <<"h", "e", "a", "r", "t", " ", "a", "t", "t", "a", "c", "k">>,
       <<"s", "t", "r", "o", "k", "e">> >>

high_words ==
    << <<"b", "l", "e", "e", "d", "i", "n", "g">>,
       <<"a", "c", "c", "i", "d", "e", "n", "t">>,
       <<"f", "a", "l", "l">>,
       <<"b", "u", "r", "n">>,
       <<"p", "a", "i", "n">>,
       <<"i", "n", "j", "u", "r", "y">>,
       <<"d", "i", "f", "f", "i", "c", "u", "l", "t", "y", " ", "b", "r", "e", "a", "t", "h", "i", "n", "g">> >>

emergency_patterns ==
    << [type |-> "Cardiac Emergency",
        keywords |-> << <<"c", "h", "e", "s", "t", " ", "p", "a", "i", "n">>,
                       <<"h", "e", "a", "r", "t", " ", "a", "t", "t", "a", "c", "k">>,
                       <<"c", "a", "r", "d", "i", "a", "c">>,
                       <<"h", "e", "a", "r", "t">> >>],
       [type |-> "Respiratory Emergency",
        keywords |-> << <<"b", "r", "e", "a", "t", "h", "i", "n", "g">>,
                       <<"b", "r", "e", "a", "t", "h", "e">>,
                       <<"a", "i", "r", "w", "a", "y">>,
                       <<"c", "h", "o", "k", "i", "n", "g">>,
                       <<"a", "s", "t", "h", "m", "a">> >>],
       [type |-> "Vehicle Accident",
        keywords |-> << <<"a", "c", "c", "i", "d", "e", "n", "t">>,
                       <<"c", "r", "a", "s", "h">>,
                       <<"c", "o", "l", "l", "i", "s", "i", "o", "n">>,
                       <<"h", "i", "t">>,
                       <<"c", "a", "r">>,
                       <<"v", "e", "h", "i", "c", "l", "e">> >>],
       [type |-> "Fall Injury",
        keywords |-> << <<"f", "a", "l", "l">>,
                       <<"f", "e", "l", "l">>,
                       <<"s", "l", "i", "p">>,
                       <<"s", "t", "a", "i", "r", "s">> >>],
       [type |-> "Burn Injury",
        keywords |-> << <<"b", "u", "r", "n">>,
                       <<"f", "i", "r", "e">>,
                       <<"h", "o", "t">>,
                       <<"s", "t", "e", "a", "m">> >>],
       [type |-> "Bleeding/Laceration",
        keywords |-> << <<"c", "u", "t">>,
                       <<"b", "l", "e", "e", "d", "i", "n", "g">>,
                       <<"b", "l", "o", "o", "d">>,
                       <<"w", "o", "u", "n", "d">> >>],
       [type |-> "Stroke",
        keywords |-> << <<"s", "t", "r", "o", "k", "e">>,
                       <<"s", "l", "u", "r", "r", "e", "d", " ", "s", "p", "e", "e", "c", "h">>,
                       <<"f", "a", "c", "e", " ", "d", "r", "o", "o", "p", "i", "n", "g">>,
                       <<"w", "e", "a", "k", "n", "e", "s", "s">> >>],
       [type |-> "Allergic Reaction",
        keywords |-> << <<"a", "l", "l", "e", "r", "g", "i", "c">>,
                       <<"r", "e", "a", "c", "t", "i", "o", "n">>,
                       <<"s", "w", "e", "l", "l", "i", "n", "g">>,
                       <<"h", "i", "v", "e", "s">> >>] >>

MsgChest == <<"C", "h", "e", "s", "t", " ", "p", "a", "i", "n">>

\* A severity check that tests the high-severity words before the critical
\* ones
QuickSeverityCheck_HighFirst(message) ==
    LET message_lower == Lower(message)
    IN  IF AnyIn(high_words, message_lower) THEN "high"
        ELSE IF AnyIn(critical_words, message_lower) THEN "critical"
        ELSE "moderate"

\* _quick_severity_check (the lru_cache memoises a pure function)
QuickSeverityCheck(message) ==
    LET message_lower == Lower(message)
    IN  IF AnyIn(critical_words, message_lower) THEN "critical"
        ELSE IF AnyIn(high_words, message_lower) THEN "high"
        ELSE "moderate"

\* A classification without the final `return "General Emergency"`: a
\* message that matches nothing gets None
EnhancedClassifyEmergency_NoDefault(message) ==
    LET message_lower == Lower(message)
        hits == { i \in DOMAIN emergency_patterns :
                    AnyIn(emergency_patterns[i].keywords, message_lower) }
    IN  IF hits = {} THEN None
        ELSE emergency_patterns[CHOOSE i \in hits : \A j \in hits : i <= j].type

\* A classification in which a later pattern overrides an earlier one
EnhancedClassifyEmergency_LastMatch(message) ==
    LET message_lower == Lower(message)
        hits == { i \in DOMAIN emergency_patterns :
                    AnyIn(emergency_patterns[i].keywords, message_lower) }
    IN  IF hits = {} THEN "General Emergency"
        ELSE emergency_patterns[CHOOSE i \in hits : \A j \in hits : j <= i].type

\* _enhanced_classify_emergency: the first pattern, in declaration order, one
\* of whose keywords occurs in the lower-cased message
EnhancedClassifyEmergency(message) ==
    LET message_lower == Lower(message)
        hits == { i \in DOMAIN emergency_patterns :
                    AnyIn(emergency_patterns[i].keywords, message_lower) }
    IN  IF hits = {} THEN "General Emergency"
        ELSE emergency_patterns[CHOOSE i \in hits : \A j \in hits : i <= j].type

tips_map ==
    [ t \in { "Cardiac Emergency", "Respiratory Emergency", "Vehicle Accident",
              "Fall Injury", "Burn Injury" } |->
        CASE t = "Cardiac Emergency" ->
               << "Call 911 immediately", "Have person sit down and rest",
                  "Loosen tight clothing", "If unconscious, begin CPR",
                  "Look for aspirin if not allergic",
                  "Stay calm and reassure person" >>
          [] t = "Respiratory Emergency" ->
               << "Call 911 immediately", "Help person sit upright",
                  "Loosen tight clothing",
                  "If choking, perform Heimlich maneuver",
                  "Look for rescue inhaler or EpiPen",
                  "Monitor breathing continuously" >>
          [] t = "Vehicle Accident" ->
               << "Ensure scene safety first",
                  "Do not move person unless danger",
                  "Check consciousness and breathing",
                  "Control bleeding with pressure",
                  "Keep person warm and still",
                  "Call 911 and stay with person" >>
          [] t = "Fall Injury" ->
               << "Do not move if spinal injury suspected",
                  "Check consciousness and breathing",
                  "Look for head or neck pain", "Apply ice to swelling areas",
                  "Elevate limbs if no fracture", "Monitor for shock signs" >>
          [] t = "Burn Injury" ->
               << "Remove from heat source safely",
                  "Cool with running water 10-20 min",
                  "Do not use ice or butter", "Cover with clean cloth",
                  "Do not break blisters", "Remove jewelry before swelling" >> ]

default_tips ==
    << "Ensure safety first", "Call 911 immediately",
       "Check consciousness and breathing", "Provide comfort and reassurance",
       "Stay with person until help arrives",
       "Give clear information to responders" >>

\* First-aid tips with the CPR step put in front of the list
GetEnhancedFirstAidTips_CprFirst(accident_type, severity) ==
    LET base_tips == Get(tips_map, accident_type, default_tips)
        tips == IF severity = "critical"
                THEN Insert(base_tips, 0, "Be prepared to perform CPR")
                ELSE base_tips
    IN  Take(tips, MAX_FIRST_AID)

\* _get_enhanced_first_aid_tips
GetEnhancedFirstAidTips(accident_type, severity) ==
    LET base_tips == Get(tips_map, accident_type, default_tips)
        tips == IF severity = "critical"
                THEN Insert(base_tips, 1, "Be prepared to perform CPR")
                ELSE base_tips
    IN  Take(tips, MAX_FIRST_AID)

\* _calculate_response_time
CalculateResponseTime(severity, emergency_type) ==
    IF severity = "critical" THEN "0-4 minutes (Life threatening)"
    ELSE IF severity = "high" THEN "4-8 minutes (Urgent)"
    ELSE "8-15 minutes (Standard)"

priority_map ==
    [ s \in { "critical", "high", "moderate", "low" } |->
        CASE s = "critical" -> "Priority 1 (Life threatening)"
          [] s = "high" -> "Priority 2 (Urgent)"
          [] s = "moderate" -> "Priority 3 (Standard)"
          [] s = "low" -> "Priority 4 (Non-urgent)" ]

\* _get_priority_level
GetPriorityLevel(severity) == Get(priority_map, severity, "Priority 3 (Standard)")

\* _get_enhanced_recommended_actions
GetEnhancedRecommendedActions(emergency_type, severity) ==
    LET actions == << "Call 911 immediately", "Provide first aid as trained",
                      "Stay with person until help arrives",
                      "Give clear information to responders" >>
        a2 == IF severity = "critical"
              THEN Append(Insert(actions, 1, "Be prepared to perform CPR"),
                          "Clear path for emergency vehicles")
              ELSE actions
    IN  IF emergency_type = "Vehicle Accident"
        THEN Append(a2, "Turn on hazard lights if safe")
        ELSE a2

severity_descriptions ==
    [ s \in { "critical", "high", "moderate", "low" } |->
        CASE s = "critical" ->
               "This is a life-threatening emergency requiring immediate intervention."
          [] s = "high" ->
               "This is a serious emergency requiring urgent medical attention."
          [] s = "moderate" ->
               "This emergency requires prompt medical evaluation and care."
          [] s = "low" ->
               "This situation requires medical attention but is not immediately life-threatening." ]

type_assessments ==
    [ t \in { "Vehicle Accident", "Heart Attack", "Fall Injury",
              "Allergic Reaction", "Burn Injury", "Respiratory Emergency",
              "Stroke" } |->
        CASE t = "Vehicle Accident" ->
               "Multi-vehicle collision with potential trauma injuries. Risk of internal bleeding, fractures, and head injuries."
          [] t = "Heart Attack" ->
               "Cardiac emergency with risk of cardiac arrest. Time-critical situation requiring immediate intervention."
          [] t = "Fall Injury" ->
               "Trauma from fall with potential for fractures, head injury, or spinal damage."
          [] t = "Allergic Reaction" ->
               "Severe allergic response with risk of anaphylaxis and respiratory compromise."
          [] t = "Burn Injury" ->
               "Thermal injury requiring immediate cooling and wound care to prevent complications."
          [] t = "Respiratory Emergency" ->
               "Breathing difficulty requiring immediate airway management and oxygen support."
          [] t = "Stroke" ->
               "Neurological emergency requiring immediate medical intervention to prevent permanent damage." ]

\* _generate_assessment: f"{base_assessment} {specific_assessment}"
GenerateAssessment(accident_type, severity, message) ==
    << Get(severity_descriptions, severity,
           "Emergency situation requiring medical attention."),
       Get(type_assessments, accident_type,
           "Emergency situation based on reported symptoms.") >>

warning_map ==
    [ t \in { "Vehicle Accident", "Heart Attack", "Fall Injury",
              "Allergic Reaction", "Burn Injury" } |->
        CASE t = "Vehicle Accident" ->
               << "Loss of consciousness", "Severe bleeding that won't stop",
                  "Signs of spinal injury", "Difficulty breathing",
                  "Severe head trauma" >>
          [] t = "Heart Attack" ->
               << "Chest pain lasting more than 5 minutes",
                  "Shortness of breath", "Nausea or vomiting",
                  "Sweating and pale skin", "Loss of consciousness" >>
          [] t = "Fall Injury" ->
               << "Unable to move or stand", "Severe pain in back or neck",
                  "Confusion or disorientation", "Visible bone fractures",
                  "Heavy bleeding" >>
          [] t = "Allergic Reaction" ->
               << "Difficulty breathing or wheezing",
                  "Swelling of face, lips, or throat", "Rapid pulse",
                  "Dizziness or fainting", "Widespread rash or hives" >>
          [] t = "Burn Injury" ->
               << "Burns on face, hands, or genitals",
                  "Third-degree burns (white/charred)",
                  "Burns larger than palm size", "Difficulty breathing",
                  "Signs of shock" >> ]

\* _get_warning_signs
GetWarningSigns(accident_type) ==
    Get(warning_map, accident_type,
        << "Loss of consciousness", "Severe bleeding", "Difficulty breathing",
           "Severe pain", "Signs of shock" >>)

\* f"Lat: {location.latitude}, Lon: {location.longitude}"
LatLonStr(location) == << "Lat: ", location.latitude, ", Lon: ", location.longitude >>

\* _enhanced_rule_based_analysis: the result dict
EnhancedRuleBasedAnalysis(message, location) ==
    LET severity == QuickSeverityCheck(message)
        accident_type == EnhancedClassifyEmergency(message)
        first_aid_tips == GetEnhancedFirstAidTips(accident_type, severity)
        response_time == CalculateResponseTime(severity, accident_type)
        location_str == IF location.address # None THEN location.address
                        ELSE LatLonStr(location)
        assessment == GenerateAssessment(accident_type, severity, message)
        recommendations == GetEnhancedRecommendedActions(accident_type, severity)
        warning_signs == GetWarningSigns(accident_type)
    IN  [ emergency_type |-> accident_type,
          severity |-> severity,
          assessment |-> assessment,
          recommendations |-> recommendations,
          first_aid_steps |-> first_aid_tips,
          warning_signs |-> warning_signs,
          estimated_response_time |-> response_time,
          emergency_number |-> "911",
          accident_type |-> accident_type,
          first_aid_tips |-> first_aid_tips,
          location |-> location_str,
          details |-> << "Enhanced Analysis: ", message >>,
          severity_level |-> severity,
          recommended_actions |-> recommendations,
          response_time_needed |-> response_time,
          priority_level |-> GetPriorityLevel(severity) ]

-----------------------------------------------------------------------------
(* Inputs of the model *)

Messages == { MsgChest }

\* latitude and longitude in thousandths of a degree
Locations ==
    { [ latitude |-> 40712, longitude |-> -74006, address |-> None ]
      }

ScenarioTypes == { None }

Kinds == { "openai_requests", "google_maps_requests", "twilio_calls",
           "twilio_minutes" }

\* datetime.now().strftime("%Y-%m-%d") at time t, as a day number
DayOf(t) == 1 + (t \div (TicksPerDay * TickSeconds))

\* today = datetime.now().strftime("%Y-%m-%d")
today == DayOf(now)

Trackers == 1..NumTrackers

\* _enhanced_rule_based_analysis on the inputs of the model, computed once
RuleBasedResults ==
    [ m \in Messages |->
        [ l \in Locations |-> EnhancedRuleBasedAnalysis(m, l) ] ]

-----------------------------------------------------------------------------
(* Quota tracker: backend/app/cost_protection.py *)

\* os.getenv("DEMO_MODE", default)
GetenvDemoMode(default) == IF env_DEMO_MODE = None THEN default ELSE env_DEMO_MODE

\* CostProtection.is_demo_mode
IsDemoMode == GetenvDemoMode("true") = "true"

\* can_make_request without the demo-mode shortcut of lines 57-58
CanMakeRequest_NoDemoShortcut(request_type) ==
    IF ~storeOK
    THEN [ allowed |-> TRUE, log |-> << "ERROR Error checking request limits" >> ]
    ELSE [ allowed |-> Get(Get(Get(store, "usage", EmptyDict), today, EmptyDict),
                           request_type, 0)
                       < Get(Get(store, "daily_limits", EmptyDict), request_type, 0),
           log |-> << >> ]

\* can_make_request comparing with <= instead of <
CanMakeRequest_AtMost(request_type) ==
    IF IsDemoMode
    THEN [ allowed |-> TRUE, log |-> << >> ]
    ELSE IF ~storeOK
    THEN [ allowed |-> TRUE, log |-> << "ERROR Error checking request limits" >> ]
    ELSE [ allowed |-> Get(Get(Get(store, "usage", EmptyDict), today, EmptyDict),
                           request_type, 0)
                       <= Get(Get(store, "daily_limits", EmptyDict), request_type, 0),
           log |-> << >> ]

\* can_make_request refusing when the store cannot be read
CanMakeRequest_FailClosed(request_type) ==
    IF IsDemoMode
    THEN [ allowed |-> TRUE, log |-> << >> ]
    ELSE IF ~storeOK
    THEN [ allowed |-> FALSE, log |-> << "ERROR Error checking request limits" >> ]
    ELSE [ allowed |-> Get(Get(Get(store, "usage", EmptyDict), today, EmptyDict),
                           request_type, 0)
                       < Get(Get(store, "daily_limits", EmptyDict), request_type, 0),
           log |-> << >> ]

\* can_make_request that refuses a kind whose limit was reached on any stored
\* date
CanMakeRequest_AnyDate(request_type) ==
    IF IsDemoMode
    THEN [ allowed |-> TRUE, log |-> << >> ]
    ELSE IF ~storeOK
    THEN [ allowed |-> TRUE, log |-> << "ERROR Error checking request limits" >> ]
    ELSE LET usage == Get(store, "usage", EmptyDict)
             limit == Get(Get(store, "daily_limits", EmptyDict), request_type, 0)
         IN  [ allowed |-> /\ 0 < limit
                           /\ \A d \in DOMAIN usage :
                                 Get(usage[d], request_type, 0) < limit,
               log |-> << >> ]

\* CostProtection.can_make_request: the answer and what it logs
CanMakeRequest(request_type) ==
    IF IsDemoMode
    THEN [ allowed |-> TRUE, log |-> << >> ]
    ELSE IF ~storeOK
    THEN [ allowed |-> TRUE, log |-> << "ERROR Error checking request limits" >> ]
    ELSE LET today_usage == Get(Get(store, "usage", EmptyDict), today, EmptyDict)
             daily_limits == Get(store, "daily_limits", EmptyDict)
             current_usage == Get(today_usage, request_type, 0)
             limit == Get(daily_limits, request_type, 0)
         IN  [ allowed |-> current_usage < limit, log |-> << >> ]

\* f"{request_type}_cost"
CostKey(request_type) ==
    CASE request_type = "openai_requests" -> "openai_requests_cost"
      [] request_type = "google_maps_requests" -> "google_maps_requests_cost"
      [] request_type = "twilio_calls" -> "twilio_calls_cost"
      [] request_type = "twilio_minutes" -> "twilio_minutes_cost"

\* track_request that starts today's entry afresh instead of reading it
TrackedData_FreshDay(data, request_type, cost) ==
    Put(data, "usage",
        Put(Get(data, "usage", EmptyDict), today,
            Put(EmptyDict, request_type, 1)))

\* track_request writing back today's counters alone
TrackedData_OnlyToday(data, request_type, cost) ==
    LET usage0 == Get(data, "usage", EmptyDict)
        day0 == Get(usage0, today, EmptyDict)
        day1 == Put(day0, request_type, Get(day0, request_type, 0) + 1)
        cost_key == CostKey(request_type)
        day2 == IF cost > 0
                THEN Put(day1, cost_key, Get(day1, cost_key, 0) + cost)
                ELSE day1
    IN  Put(data, "usage", Put(EmptyDict, today, day2))

\* The data of track_request after its increments (lines 83-99)
TrackedData(data, request_type, cost) ==
    LET usage0 == Get(data, "usage", EmptyDict)
        day0 == Get(usage0, today, EmptyDict)
        day1 == Put(day0, request_type, Get(day0, request_type, 0) + 1)
        cost_key == CostKey(request_type)
        day2 == IF cost > 0
                THEN Put(day1, cost_key, Get(day1, cost_key, 0) + cost)
                ELSE day1
    IN  Put(data, "usage", Put(usage0, today, day2))

\* CostProtection.track_request, called from a handler of the event loop:
\* the store it leaves and what it logs
TrackRequest(request_type, cost) ==
    IF ~storeOK
    THEN [ store |-> store, log |-> << "ERROR Error tracking request" >> ]
    ELSE [ store |-> TrackedData(store, request_type, cost),
           log |-> << >> ]

-----------------------------------------------------------------------------
(* Result cache: SimpleCache in backend/app/services.py *)

\* SimpleCache.get comparing with <= instead of <
CacheGet_AtExpiry(c, key, t) ==
    IF key \in DOMAIN c
    THEN IF t <= c[key].expires
         THEN [ found |-> TRUE, data |-> c[key].data, cache |-> c ]
         ELSE [ found |-> FALSE, data |-> EmptyDict, cache |-> Del(c, key) ]
    ELSE [ found |-> FALSE, data |-> EmptyDict, cache |-> c ]

\* SimpleCache.get: whether an entry is returned, the entry's data, and the
\* cache map the call leaves
CacheGet(c, key, t) ==
    IF key \in DOMAIN c
    THEN IF t < c[key].expires
         THEN [ found |-> TRUE, data |-> c[key].data, cache |-> c ]
         ELSE [ found |-> FALSE, data |-> EmptyDict, cache |-> Del(c, key) ]
    ELSE [ found |-> FALSE, data |-> EmptyDict, cache |-> c ]

\* A set that leaves an entry that is already there (dict.setdefault)
CacheSet_KeepExisting(c, key, data, ttl_seconds, t) ==
    IF key \in DOMAIN c
    THEN c
    ELSE Put(c, key, [ data |-> data, expires |-> t + ttl_seconds ])

\* A set that ignores ttl_seconds: the entry expires as it is written
CacheSet_NoTTL(c, key, data, ttl_seconds, t) ==
    Put(c, key, [ data |-> data, expires |-> t ])

\* SimpleCache.set
CacheSet(c, key, data, ttl_seconds, t) ==
    Put(c, key, [ data |-> data, expires |-> t + ttl_seconds ])

-----------------------------------------------------------------------------
(* Analysis service: EmergencyAnalysisService in backend/app/services.py *)

\* round(x, 2) of a coordinate given in thousandths (no input is a tie)
Round2(x) == ((x + 5) \div 10) * 10

\* hash(str): equal strings hash alike
Hash(s) == << "hash", s >>

\* cache_key of analyze_emergency
CacheKey(message, location, scenario_type) ==
    << "analysis", scenario_type,
       Hash(Take(Lower(message), MESSAGE_PREFIX_LEN)),
       Round2(location.latitude), Round2(location.longitude) >>

\* The replies a provider may give with status 200 and parseable JSON: the
\* fields of the reply that _ai_analysis reads
Replies ==
    { EmptyDict,
      [ emergency_type |-> "Cardiac Emergency", severity |-> "critical" ],
      [ emergency_type |-> "", severity |-> "severe",
        assessment |-> << "Patient needs help." >>,
        recommendations |-> << "Stay calm" >>,
        first_aid_steps |-> << "s1", "s2", "s3", "s4", "s5", "s6", "s7" >>,
        warning_signs |-> << "w1" >>,
        estimated_response_time |-> "2 minutes",
        emergency_number |-> "112" ] }

\* What becomes of the provider request
Outcomes ==
    { [ kind |-> "ok", reply |-> r ] : r \in Replies }
    \cup { [ kind |-> k, reply |-> EmptyDict ] :
             k \in { "status", "timeout", "error" } }

NoOutcome == [ kind |-> "none", reply |-> EmptyDict ]

\* _ai_analysis without the `except asyncio.TimeoutError` clause and with the
\* generic clause narrowed so that a timeout escapes
AiAnalysis_TimeoutEscapes(message, location, scenario_type, o) ==
    IF o.kind = "timeout"
    THEN [ raised |-> TRUE, result |-> EmptyDict ]
    ELSE [ raised |-> FALSE, result |-> RuleBasedResults[message][location] ]

\* _ai_analysis after the provider request ended with outcome o: whether it
\* raises, and the dict it returns
AiAnalysis(message, location, scenario_type, o) ==
    IF o.kind = "ok"
    THEN LET ai_response == o.reply
         IN  [ raised |-> FALSE,
               result |->
                 [ emergency_type |-> Get(ai_response, "emergency_type", "Emergency Situation"),
                   severity |-> Get(ai_response, "severity", "moderate"),
                   assessment |-> Get(ai_response, "assessment",
                       << "Emergency situation requiring immediate attention." >>),
                   recommendations |-> Get(ai_response, "recommendations",
                       << "Call 911 immediately", "Follow first aid steps",
                          "Stay with person until help arrives" >>),
                   first_aid_steps |-> Get(ai_response, "first_aid_steps",
                       << "Assess the situation", "Ensure scene safety",
                          "Check for responsiveness" >>),
                   warning_signs |-> Get(ai_response, "warning_signs",
                       << "Loss of consciousness", "Severe bleeding",
                          "Difficulty breathing" >>),
                   estimated_response_time |->
                       Get(ai_response, "estimated_response_time", "5-10 minutes"),
                   emergency_number |-> Get(ai_response, "emergency_number", "911"),
                   accident_type |-> Get(ai_response, "emergency_type", "Emergency Situation"),
                   first_aid_tips |->
                       Take(Get(ai_response, "first_aid_steps", << >>), MAX_FIRST_AID),
                   location |-> LatLonStr(location),
                   details |-> << "AI Analysis: ", message >>,
                   severity_level |-> Get(ai_response, "severity", "moderate"),
                   recommended_actions |-> Get(ai_response, "recommendations", << >>),
                   response_time_needed |->
                       Get(ai_response, "estimated_response_time", "Standard"),
                   priority_level |-> Get(ai_response, "severity", "medium") ] ]
    ELSE \* non-200 status, asyncio.TimeoutError, any other Exception
         [ raised |-> FALSE, result |-> RuleBasedResults[message][location] ]

\* What _ai_analysis logs at level WARNING or ERROR (lines 321, 324, 327)
AiLog(o) ==
    CASE o.kind = "status" -> << "WARNING OpenAI API error" >>
      [] o.kind = "timeout" -> << "WARNING OpenAI API timeout" >>
      [] o.kind = "error" -> << "ERROR OpenAI API error" >>
      [] OTHER -> << >>

\* _get_fallback_response: an AccidentReport object, not a dict
GetFallbackResponse(message, location) ==
    [ accident_type |-> "Emergency Situation",
      first_aid_tips |-> << "Ensure safety first", "Call 911 immediately",
                            "Check if person is conscious and breathing",
                            "Provide comfort and reassurance",
                            "Stay with person until help arrives" >>,
      location |-> LatLonStr(location),
      details |-> << "Emergency situation: ", message >>,
      severity_level |-> "moderate",
      recommended_actions |-> << "Call emergency services immediately",
                                 "Provide basic first aid",
                                 "Stay calm and wait for help" >> ]

\* The cache lookup of analyze_emergency without the force_new test
CacheLookup_IgnoringForce(force_new, key) == CacheGet(cache, key, now)

\* Lines 218-223 of analyze_emergency: the cache is read unless force_new
CacheLookup(force_new, key) ==
    IF force_new
    THEN [ found |-> FALSE, data |-> EmptyDict, cache |-> cache ]
    ELSE CacheGet(cache, key, now)

\* The condition of line 227 of services.py
UseAI == openai_api_key /\ GetenvDemoMode("false") # "true"

-----------------------------------------------------------------------------
(* Request handlers: backend/app/routes.py *)

Idle ==
    [ pc |-> "idle", message |-> << >>, location |-> None, scenario_type |-> None,
      force_new |-> FALSE, start |-> 0, live_entry |-> FALSE,
      attempts |-> 0, outcome |-> NoOutcome, path |-> "none",
      endpoint |-> None, invoked |-> FALSE,
      response |-> [ status |-> 0 ] ]

\* The HTTPException of status 500 that every handler's except clause raises
Error500(detail) == [ status |-> 500, detail |-> detail ]

\* The scenario type the handler passes on: request.scenario_type or "custom-emergency"
ScenarioOf(scenario_type) ==
    IF scenario_type = None THEN "custom-emergency" ELSE scenario_type

\* Lines 78-83 of routes.py: the handler writes two keys into the dict it got
WithPerformance(result, start) ==
    Put(Put(result, "performance",
            [ response_time_ms |-> (now - start) * 1000, optimized |-> TRUE,
              cached |-> FALSE ]),
        "timestamp", now)

\* analyze_emergency_enhanced from the return of analyze_emergency on (lines
\* 71-86), after analyze_emergency left the cache map c1 and returned the
\* dict `result`, which is the object the cache holds under `key`; `rest` are
\* the requests that still await the provider
RouteFinish(rest, r, c1, key, result, path, log) ==
    LET track == TrackRequest("openai_requests", 0)
        body == WithPerformance(result, r.start)
    IN  /\ store' = track.store
        /\ cache' = [ c1 EXCEPT ![key].data = body ]
        /\ reqs' = rest
        /\ last' = [ r EXCEPT !.pc = "done", !.path = path,
                              !.response = [ status |-> 200, body |-> body ] ]
        /\ logged' = log \o track.log

\* The same when analyze_emergency caught an exception and returned the
\* AccidentReport of _get_fallback_response: the usage is tracked, the item
\* assignment of line 78 raises TypeError and the handler answers 500
RouteFinishRaised(rest, r, c1, log) ==
    LET track == TrackRequest("openai_requests", 0)
    IN  /\ store' = track.store
        /\ cache' = c1
        /\ reqs' = rest
        /\ last' = [ r EXCEPT !.pc = "done", !.path = "exception",
                              !.response =
                                  Error500("Emergency analysis service unavailable") ]
        /\ logged' = log \o << "ERROR Error in emergency analysis" >> \o track.log
                       \o << "ERROR Error in enhanced emergency analysis" >>

\* POST /emergency/analyze up to its first suspension: the quota check, the
\* cache lookup and either the whole rule-based answer or the provider request
AnalyzeEmergencyEnhanced ==
    /\ BagCardinality(reqs) < NumHandlers
    /\ started < MaxRequests
    /\ \E message \in Messages, location \in Locations,
          scenario_type \in ScenarioTypes, force_new \in BOOLEAN :
          LET gate == CanMakeRequest("openai_requests")
              scen == ScenarioOf(scenario_type)
              key == CacheKey(message, location, scen)
              r == [ Idle EXCEPT !.message = message, !.location = location,
                                 !.scenario_type = scen, !.force_new = force_new,
                                 !.start = now,
                                 !.endpoint = "/emergency/analyze",
                                 !.invoked = gate.allowed,
                                 !.live_entry = (key \in DOMAIN cache
                                                 /\ now < cache[key].expires) ]
              got == CacheLookup(force_new, key)
          IN  /\ started' = started + 1
              /\ IF ~gate.allowed
                 THEN \* HTTPException(429) is caught by `except Exception`
                      /\ last' = [ r EXCEPT !.pc = "done", !.path = "rejected",
                                            !.response = Error500(
                                                "Emergency analysis service unavailable") ]
                      /\ logged' = gate.log
                                     \o << "ERROR Error in enhanced emergency analysis" >>
                      /\ UNCHANGED << reqs, store, cache, callsToday >>
                 ELSE IF got.found
                 THEN /\ RouteFinish(reqs, r, got.cache, key, got.data, "cache",
                                  gate.log)
                      /\ UNCHANGED << callsToday >>
                 ELSE IF UseAI
                 THEN /\ reqs' = reqs (+) SetToBag({ [ r EXCEPT !.pc = "awaiting",
                                                                 !.attempts = 1 ] })
                      /\ cache' = got.cache
                      /\ callsToday' = callsToday + 1
                      /\ logged' = gate.log
                      /\ last' = Idle
                      /\ UNCHANGED store
                 ELSE /\ RouteFinish(reqs, r,
                             CacheSet(got.cache, key,
                                      RuleBasedResults[message][location],
                                      CACHE_TTL_SECONDS, now),
                             key, RuleBasedResults[message][location], "rule",
                             gate.log)
                      /\ UNCHANGED << callsToday >>
    /\ UNCHANGED << env_DEMO_MODE, openai_api_key, storeOK, now, clean,
                    tpc, tdata, arg, ret >>

\* What analyze_emergency and the handler do once the provider request of
\* req has ended with outcome o
ProviderOutcome(req, o) ==
    LET r == [ req EXCEPT !.outcome = o ]
        rest == reqs (-) SetToBag({ req })
        key == CacheKey(r.message, r.location, r.scenario_type)
        ai == AiAnalysis(r.message, r.location, r.scenario_type, o)
    IN  IF ai.raised
        THEN RouteFinishRaised(rest, r, cache, << >>)
        ELSE RouteFinish(rest, r,
                 CacheSet(cache, key, ai.result, CACHE_TTL_SECONDS, now),
                 key, ai.result, IF o.kind = "ok" THEN "ai" ELSE "ai_failed",
                 AiLog(o))

\* A handler that sends the provider request a second time after a failure
ProviderResponse_Retry(req) ==
    /\ BagIn(req, reqs)
    /\ \E o \in Outcomes :
          IF o.kind # "ok" /\ req.attempts < 2
          THEN /\ reqs' = (reqs (-) SetToBag({ req }))
                            (+) SetToBag({ [ req EXCEPT !.attempts = 2 ] })
               /\ callsToday' = callsToday + 1
               /\ logged' = AiLog(o)
               /\ last' = Idle
               /\ UNCHANGED << store, cache >>
          ELSE /\ ProviderOutcome(req, o)
               /\ UNCHANGED callsToday
    /\ UNCHANGED << env_DEMO_MODE, openai_api_key, storeOK, now, started,
                    clean, tpc, tdata, arg, ret >>

\* A handler whose provider request has no timeout and gets no reply: it
\* keeps waiting
ProviderResponse_WaitsForever(req) ==
    /\ BagIn(req, reqs)
    /\ UNCHANGED vars

\* POST /emergency/analyze from the end of the provider request to the answer
ProviderResponse(req) ==
    /\ BagIn(req, reqs)
    /\ \E o \in Outcomes : ProviderOutcome(req, o)
    /\ UNCHANGED << env_DEMO_MODE, openai_api_key, storeOK, now, started,
                    callsToday, clean, tpc, tdata, arg, ret >>

\* POST /demo-mode/enable, /demo-mode/disable, /demo/toggle: set_demo_mode
SetDemoMode(enabled) ==
    /\ env_DEMO_MODE' = IF enabled THEN "true" ELSE "false"
    /\ env_DEMO_MODE' # env_DEMO_MODE
    /\ clean' = (clean /\ ~enabled)
    /\ logged' = << >>
    /\ last' = Idle
    /\ UNCHANGED << openai_api_key, store, storeOK, now, cache, reqs,
                    started, callsToday, tpc, tdata, arg, ret >>

\* CostProtection.reset_daily_usage
ResetDailyUsage ==
    /\ IF ~storeOK
       THEN /\ logged' = << "ERROR Error resetting usage" >>
            /\ UNCHANGED store
       ELSE IF today \in DOMAIN Get(store, "usage", EmptyDict)
       THEN /\ store' = [ store EXCEPT !.usage = Del(store.usage, today) ]
            /\ logged' = << >>
       ELSE /\ logged' = << >>
            /\ UNCHANGED store
    /\ clean' = FALSE
    /\ last' = Idle
    /\ UNCHANGED << env_DEMO_MODE, openai_api_key, storeOK, now, cache,
                    reqs, started, callsToday, tpc, tdata, arg, ret >>

-----------------------------------------------------------------------------
(* Environment *)

\* Time passes, and with it midnight
Tick ==
    /\ now + TickSeconds <= MaxTicks * TickSeconds
    /\ now' = now + TickSeconds
    /\ IF DayOf(now') # DayOf(now)
       THEN /\ callsToday' = 0
            /\ clean' = (~IsDemoMode /\ storeOK)
       ELSE UNCHANGED << callsToday, clean >>
    /\ logged' = << >>
    /\ last' = Idle
    /\ UNCHANGED << env_DEMO_MODE, openai_api_key, store, storeOK, cache,
                    reqs, started, tpc, tdata, arg, ret >>

\* api_usage.json becomes unreadable (removed, garbled, permissions) ...
StoreFails ==
    /\ storeOK
    /\ storeOK' = FALSE
    /\ clean' = FALSE
    /\ logged' = << >>
    /\ last' = Idle
    /\ UNCHANGED << env_DEMO_MODE, openai_api_key, store, now, cache,
                    reqs, started, callsToday, tpc, tdata, arg, ret >>

\* ... and readable again, with the content it had
StoreRecovers ==
    /\ ~storeOK
    /\ storeOK' = TRUE
    /\ logged' = << >>
    /\ last' = Idle
    /\ UNCHANGED << env_DEMO_MODE, openai_api_key, store, now, cache,
                    reqs, started, callsToday, clean, tpc, tdata, arg, ret >>

-----------------------------------------------------------------------------
(* The service *)

\* ensure_usage_file_exists writes this when there is no file, with the
\* limits the environment gives
InitialData(openai_limit) ==
    [ usage |-> EmptyDict,
      daily_limits |-> [ openai_requests |-> openai_limit,
                         google_maps_requests |-> 1,
                         twilio_calls |-> 1,
                         twilio_minutes |-> 1 ] ]

\* A file left by an earlier run: today's twilio_calls quota is used up and
\* twilio_minutes has no limit
EarlierData ==
    [ usage |-> [ d \in {1} |-> [ twilio_calls |-> 1 ] ],
      daily_limits |-> [ openai_requests |-> 1,
                         google_maps_requests |-> 1,
                         twilio_calls |-> 1 ] ]

Init ==
    /\ env_DEMO_MODE \in { None, "true", "false" }
    /\ openai_api_key \in BOOLEAN
    /\ store = EarlierData
    /\ storeOK = TRUE
    /\ now = 0
    /\ cache = EmptyDict
    /\ reqs = EmptyBag
    /\ last = Idle
    /\ started = 0
    /\ callsToday = 0
    /\ clean = ~IsDemoMode
    /\ logged = << >>
    /\ tpc = [ t \in Trackers |-> "idle" ]
    /\ tdata = [ t \in Trackers |-> EmptyDict ]
    /\ arg = None
    /\ ret = None

Next ==
    \/ AnalyzeEmergencyEnhanced
    \/ \E req \in BagToSet(reqs) : ProviderResponse(req)
    \/ \E enabled \in BOOLEAN : SetDemoMode(enabled)
    \/ ResetDailyUsage
    \/ Tick
    \/ StoreFails
    \/ StoreRecovers

Spec == Init /\ [][Next]_vars

\* The provider request of a handler ends: by a reply, by an error, or by
\* the ClientTimeout(total=8) of the session after 8 seconds at the latest
ProviderRequestEnds == \E req \in BagToSet(reqs) : ProviderResponse(req)

\* The service with an API key and provider requests that end, while the
\* clock advances
InitLive == Init /\ openai_api_key

NextLive ==
    \/ AnalyzeEmergencyEnhanced
    \/ ProviderRequestEnds
    \/ Tick

SpecLive == InitLive /\ [][NextLive]_vars /\ WF_vars(ProviderRequestEnds)

-----------------------------------------------------------------------------
(* The other quota-gated handlers of routes.py. Their services contain no   *)
(* await that suspends, so each handler is one step. GOOGLE_MAPS_API_KEY    *)
(* and the TWILIO_* credentials are unset: the services answer from their   *)
(* demo data.                                                               *)

\* The resource kind each gated endpoint checks and tracks
GateKind ==
    [ e \in { "/emergency/analyze", "/emergency/hospitals",
              "/contact-emergency", "/call-hospital" } |->
        CASE e = "/emergency/analyze" -> "openai_requests"
          [] e = "/emergency/hospitals" -> "google_maps_requests"
          [] e = "/contact-emergency" -> "twilio_calls"
          [] e = "/call-hospital" -> "twilio_calls" ]

\* A gated handler that tracks the usage before it tests the quota
GatedAnswer_TrackFirst(endpoint, refused, refused_log, served) ==
    LET request_type == GateKind[endpoint]
        gate == CanMakeRequest(request_type)
        track == TrackRequest(request_type, 0)
        r == [ Idle EXCEPT !.endpoint = endpoint, !.start = now, !.pc = "done" ]
    IN  /\ started < MaxRequests
        /\ started' = started + 1
        /\ store' = track.store
        /\ IF ~gate.allowed
           THEN /\ last' = [ r EXCEPT !.path = "rejected", !.response = refused ]
                /\ logged' = track.log \o gate.log \o refused_log
           ELSE /\ last' = [ r EXCEPT !.path = "served", !.invoked = TRUE,
                                      !.response = served ]
                /\ logged' = track.log \o gate.log
        /\ UNCHANGED << env_DEMO_MODE, openai_api_key, storeOK, now, cache,
                        reqs, callsToday, clean, tpc, tdata, arg, ret >>

\* The common shape of the three handlers: can_make_request, then either the
\* HTTPException(429) that the handler's own except clause turns into
\* `refused`, or the service call, track_request and the answer `served`
GatedAnswer(endpoint, refused, refused_log, served) ==
    LET request_type == GateKind[endpoint]
        gate == CanMakeRequest(request_type)
        track == TrackRequest(request_type, 0)
        r == [ Idle EXCEPT !.endpoint = endpoint, !.start = now, !.pc = "done" ]
    IN  /\ started < MaxRequests
        /\ started' = started + 1
        /\ IF ~gate.allowed
           THEN /\ last' = [ r EXCEPT !.path = "rejected", !.response = refused ]
                /\ logged' = gate.log \o refused_log
                /\ UNCHANGED store
           ELSE /\ last' = [ r EXCEPT !.path = "served", !.invoked = TRUE,
                                      !.response = served ]
                /\ store' = track.store
                /\ logged' = gate.log \o track.log
        /\ UNCHANGED << env_DEMO_MODE, openai_api_key, storeOK, now, cache,
                        reqs, callsToday, clean, tpc, tdata, arg, ret >>

\* POST /emergency/hospitals
FindHospitalsEnhanced ==
    GatedAnswer("/emergency/hospitals",
        Error500("Hospital search service unavailable"),
        << "ERROR Error in enhanced hospital search" >>,
        [ status |-> 200,
          body |-> [ hospitals |-> "_get_demo_hospitals",
                     performance |-> [ response_time_ms |-> 0, cached |-> FALSE,
                                       optimized |-> TRUE ] ] ])

\* POST /contact-emergency: the except clause answers with a success body
ContactEmergencyServices ==
    GatedAnswer("/contact-emergency",
        [ status |-> 200,
          body |-> [ status |-> "demo_success",
                     message |-> "Emergency services contacted (Demo Mode)",
                     response_dispatched |-> TRUE ] ],
        << "ERROR Error contacting emergency services" >>,
        [ status |-> 200,
          body |-> [ status |-> "success",
                     message |-> "Emergency services contacted",
                     response_dispatched |-> TRUE ] ])

\* POST /call-hospital: the detail of the 500 is str(e) of the HTTPException
CallHospital ==
    GatedAnswer("/call-hospital",
        Error500("429: Daily Twilio call limit reached"),
        << "ERROR Error in call_hospital" >>,
        [ status |-> 200,
          body |-> [ status |-> "demo_mode",
                     call_id |-> "demo_hospital_call_789" ] ])

NextGates ==
    \/ AnalyzeEmergencyEnhanced
    \/ ProviderRequestEnds
    \/ FindHospitalsEnhanced
    \/ ContactEmergencyServices
    \/ CallHospital
    \/ \E enabled \in BOOLEAN : SetDemoMode(enabled)
    \/ Tick
    \/ StoreFails

SpecGates == Init /\ [][NextGates]_vars

-----------------------------------------------------------------------------
(* The service across restarts of the server process *)

\* An ensure_usage_file_exists that writes the initial data whether or not
\* the file is there
EnsureUsageFileExists_Overwrite(exists, data) == InitialData(1)

\* ensure_usage_file_exists, with MAX_DAILY_OPENAI_REQUESTS=1: the content of
\* the usage file after the call, given whether the file was there
EnsureUsageFileExists(exists, data) ==
    IF ~exists THEN InitialData(1) ELSE data

\* What a restart leaves in `last`: the usage file it found
Restarted(exists, data) ==
    [ pc |-> "restarted", path |-> "none", existed |-> exists,
      usage_file |-> data, response |-> [ status |-> 0 ] ]

\* The server process ends and a new one starts: the modules are imported
\* again, so response_cache is a new SimpleCache and cost_protection a new
\* CostProtection over the same usage file; the requests in flight are gone
\* and DEMO_MODE is what the new process's environment says. An unreadable
\* usage file is either missing or there with a content json cannot load.
Restart ==
    /\ \E exists \in (IF storeOK THEN { TRUE } ELSE BOOLEAN) :
          /\ store' = EnsureUsageFileExists(exists, store)
          /\ storeOK' = (storeOK \/ ~exists)
          /\ last' = Restarted(exists, store)
    /\ env_DEMO_MODE' \in { None, "true", "false" }
    /\ cache' = EmptyDict
    /\ reqs' = EmptyBag
    /\ clean' = (clean /\ ~IsDemoMode')
    /\ logged' = << >>
    /\ UNCHANGED << openai_api_key, now, started, callsToday, tpc, tdata,
                    arg, ret >>

NextRestart ==
    \/ AnalyzeEmergencyEnhanced
    \/ \E req \in BagToSet(reqs) : ProviderResponse(req)
    \/ Tick
    \/ StoreFails
    \/ Restart

SpecRestart == Init /\ [][NextRestart]_vars

-----------------------------------------------------------------------------
(* track_request called from several threads or processes that share      *)
(* api_usage.json: nothing in CostProtection serialises the three file    *)
(* operations of lines 80-103, so they interleave freely.                  *)

\* Lines 80-81: open(usage_file, 'r') and json.load; an empty or unreadable
\* file raises, the except clause logs and the call ends
TrackOpenRead(t) ==
    /\ tpc[t] = "idle"
    /\ IF storeOK
       THEN /\ tdata' = [ tdata EXCEPT ![t] = store ]
            /\ tpc' = [ tpc EXCEPT ![t] = "loaded" ]
            /\ logged' = << >>
       ELSE /\ tpc' = [ tpc EXCEPT ![t] = "done" ]
            /\ logged' = << "ERROR Error tracking request" >>
            /\ UNCHANGED tdata
    /\ UNCHANGED << env_DEMO_MODE, openai_api_key, store, storeOK, now, cache,
                    reqs, last, started, callsToday, clean, arg, ret >>

\* Line 102: open(usage_file, 'w') truncates the file
TrackOpenWrite(t) ==
    /\ tpc[t] = "loaded"
    /\ tpc' = [ tpc EXCEPT ![t] = "writing" ]
    /\ storeOK' = FALSE
    /\ logged' = << >>
    /\ UNCHANGED << env_DEMO_MODE, openai_api_key, store, now, cache, reqs, last,
                    started, callsToday, clean, tdata, arg, ret >>

\* Line 103: json.dump of the data read at line 81, incremented
TrackDump(t) ==
    /\ tpc[t] = "writing"
    /\ tpc' = [ tpc EXCEPT ![t] = "done" ]
    /\ store' = TrackedData(tdata[t], "openai_requests", 0)
    /\ storeOK' = TRUE
    /\ logged' = << >>
    /\ UNCHANGED << env_DEMO_MODE, openai_api_key, now, cache, reqs, last,
                    started, callsToday, clean, tdata, arg, ret >>

InitTrack ==
    /\ env_DEMO_MODE = "false"
    /\ openai_api_key = TRUE
    /\ store \in { InitialData(1), EarlierData }
    /\ storeOK = TRUE
    /\ now = 0
    /\ cache = EmptyDict
    /\ reqs = EmptyBag
    /\ last = Idle
    /\ started = 0
    /\ callsToday = 0
    /\ clean = ~IsDemoMode
    /\ logged = << >>
    /\ tpc = [ t \in Trackers |-> "idle" ]
    /\ tdata = [ t \in Trackers |-> EmptyDict ]
    /\ arg = None
    /\ ret = None

NextTrack ==
    \/ \E t \in Trackers : TrackOpenRead(t)
    \/ \E t \in Trackers : TrackOpenWrite(t)
    \/ \E t \in Trackers : TrackDump(t)

SpecTrack == InitTrack /\ [][NextTrack]_vars

\* The call ends between lines 102 and 103 or inside json.dump: the write
\* raises (disk full, I/O error), which line 107 logs, or the process is
\* killed. The file is left empty or with a prefix of the JSON text, which
\* json.load rejects.
TrackInterrupted(t) ==
    /\ tpc[t] = "writing"
    /\ tpc' = [ tpc EXCEPT ![t] = "failed" ]
    /\ store' = EmptyDict
    /\ storeOK' = FALSE
    /\ \E raised \in BOOLEAN :
          logged' = IF raised THEN << "ERROR Error tracking request" >>
                    ELSE << >>
    /\ UNCHANGED << env_DEMO_MODE, openai_api_key, now, cache, reqs, last,
                    started, callsToday, clean, tdata, arg, ret >>

\* The process starts again after an interrupted call: the file is there, so
\* ensure_usage_file_exists leaves it as it is; the calls the old process
\* had begun are lost, those not yet begun are made by the new process
RestartOnTruncatedFile ==
    /\ \E t \in Trackers : tpc[t] = "failed"
    /\ \A t \in Trackers : tpc[t] # "writing"
    /\ store' = EnsureUsageFileExists(TRUE, store)
    /\ last.pc # "restarted"
    /\ tpc' = [ t \in Trackers |-> IF tpc[t] = "loaded" THEN "lost"
                                    ELSE tpc[t] ]
    /\ tdata' = [ t \in Trackers |-> EmptyDict ]
    /\ last' = Restarted(TRUE, store)
    /\ logged' = << >>
    /\ UNCHANGED << env_DEMO_MODE, openai_api_key, storeOK, now, cache, reqs,
                    started, callsToday, clean, arg, ret >>

InitCrash == InitTrack /\ store = EarlierData

NextCrash ==
    \/ \E t \in Trackers : TrackOpenRead(t)
    \/ \E t \in Trackers : TrackOpenWrite(t)
    \/ \E t \in Trackers : TrackDump(t)
    \/ \E t \in Trackers : TrackInterrupted(t)
    \/ RestartOnTruncatedFile

SpecCrash == InitCrash /\ [][NextCrash]_vars

-----------------------------------------------------------------------------
(* The rule-based classifier called on its own: every function of it is   *)
(* pure, so a call is one step from its arguments to what it returns.     *)

\* Phrases the messages are made of: none, no keyword, keywords of one
\* table, of both, in upper case, and 'scared', which holds 'car'
Phrases ==
    { <<>>,
      <<"H", "e", "l", "p">>,
      <<"C", "h", "e", "s", "t", " ", "p", "a", "i", "n">>,
      <<"c", "a", "n", "t", " ", "b", "r", "e", "a", "t", "h", "e">>,
      <<"c", "a", "r", " ", "a", "c", "c", "i", "d", "e", "n", "t">>,
      <<"s", "h", "e", " ", "f", "e", "l", "l">>,
      <<"b", "u", "r", "n">>,
      <<"s", "e", "v", "e", "r", "e", " ", "b", "l", "e", "e", "d", "i", "n", "g">>,
      <<"c", "u", "t">>,
      <<"S", "T", "R", "O", "K", "E">>,
      <<"h", "i", "v", "e", "s">>,
      <<"u", "n", "c", "o", "n", "s", "c", "i", "o", "u", "s">>,
      <<"s", "c", "a", "r", "e", "d">> }

\* The report of test_critical_emergency
MsgDying ==
    << "s", "o", "m", "e", "o", "n", "e", " ", "i", "s", " ", "d", "y", "i",
       "n", "g", ",", " ", "n", "o", "t", " ", "b", "r", "e", "a", "t", "h",
       "i", "n", "g", ",", " ", "c", "a", "r", "d", "i", "a", "c", " ", "a",
       "r", "r", "e", "s", "t" >>

\* A phrase, or two of them with a blank between, and the test's report
ClassifyMessages ==
    Phrases \cup { p \o << " " >> \o q : p \in Phrases, q \in Phrases \ { << >> } }
            \cup { MsgDying }

\* A location without an address and one with
ClassifyLocations ==
    Locations \cup { [ latitude |-> 0, longitude |-> 0, address |-> "1 Main St" ] }

\* The categories of the tables, the default category, and one of no table
Categories ==
    { emergency_patterns[i].type : i \in DOMAIN emergency_patterns }
        \cup { "General Emergency", "Heart Attack" }

\* The four severities and a value that is none of them
Severities == { "critical", "high", "moderate", "low", "severe" }

\* The calls: the function and its arguments
Calls ==
    { [ fn |-> "_quick_severity_check", message |-> m ] : m \in ClassifyMessages }
    \cup { [ fn |-> "_enhanced_classify_emergency", message |-> m ] :
              m \in ClassifyMessages }
    \cup { [ fn |-> "_get_enhanced_first_aid_tips", accident_type |-> t,
              severity |-> s ] : t \in Categories, s \in Severities }
    \cup { [ fn |-> "_get_priority_level", severity |-> s ] : s \in Severities }
    \cup { [ fn |-> "_enhanced_rule_based_analysis", message |-> m,
              location |-> l ] : m \in ClassifyMessages, l \in ClassifyLocations }

NoReturn == [ returned |-> FALSE ]

Return(value) == [ returned |-> TRUE, value |-> value ]

\* The variables of the service, which a call of a pure function leaves alone
service == << env_DEMO_MODE, openai_api_key, store, storeOK, now, cache,
              reqs, last, started, callsToday, clean, logged, tpc, tdata >>

CallQuickSeverityCheck ==
    /\ arg.fn = "_quick_severity_check"
    /\ ~ret.returned
    /\ ret' = Return(QuickSeverityCheck(arg.message))
    /\ UNCHANGED << service, arg >>

CallEnhancedClassifyEmergency ==
    /\ arg.fn = "_enhanced_classify_emergency"
    /\ ~ret.returned
    /\ ret' = Return(EnhancedClassifyEmergency(arg.message))
    /\ UNCHANGED << service, arg >>

CallGetEnhancedFirstAidTips ==
    /\ arg.fn = "_get_enhanced_first_aid_tips"
    /\ ~ret.returned
    /\ ret' = Return(GetEnhancedFirstAidTips(arg.accident_type, arg.severity))
    /\ UNCHANGED << service, arg >>

CallGetPriorityLevel ==
    /\ arg.fn = "_get_priority_level"
    /\ ~ret.returned
    /\ ret' = Return(GetPriorityLevel(arg.severity))
    /\ UNCHANGED << service, arg >>

CallEnhancedRuleBasedAnalysis ==
    /\ arg.fn = "_enhanced_rule_based_analysis"
    /\ ~ret.returned
    /\ ret' = Return(EnhancedRuleBasedAnalysis(arg.message, arg.location))
    /\ UNCHANGED << service, arg >>

InitClassify ==
    /\ env_DEMO_MODE = "true"
    /\ openai_api_key = FALSE
    /\ store = InitialData(1)
    /\ storeOK = TRUE
    /\ now = 0
    /\ cache = EmptyDict
    /\ reqs = EmptyBag
    /\ last = Idle
    /\ started = 0
    /\ callsToday = 0
    /\ clean = FALSE
    /\ logged = << >>
    /\ tpc = [ t \in Trackers |-> "idle" ]
    /\ tdata = [ t \in Trackers |-> EmptyDict ]
    /\ arg \in Calls
    /\ ret = NoReturn

NextClassify ==
    \/ CallQuickSeverityCheck
    \/ CallEnhancedClassifyEmergency
    \/ CallGetEnhancedFirstAidTips
    \/ CallGetPriorityLevel
    \/ CallEnhancedRuleBasedAnalysis

SpecClassify == InitClassify /\ [][NextClassify]_vars

-----------------------------------------------------------------------------
(* The quota tracker called directly: can_make_request, track_request,     *)
(* get_usage_report and reset_daily_usage in any order, one call at a     *)
(* time, while the clock advances and the usage file comes and goes.      *)

\* The kinds and costs the calls are made with
UsageKinds == { "openai_requests", "twilio_calls" }

UsageCosts == { 0, 1 }

\* The count stored in data for (day, kind), 0 if there is none
Count(data, day, kind) ==
    Get(Get(Get(data, "usage", EmptyDict), day, EmptyDict), kind, 0)

\* The days the clock of the model reaches
Days == 1..DayOf(MaxTicks * TickSeconds)

\* get_usage_report; amounts of money are in units of 0.0001 dollar, which
\* round(x, 4) of a multiple of 0.002, 0.005 or 0.013 is a whole number of
GetUsageReport ==
    IF ~storeOK
    THEN [ error |-> "Could not generate usage report", demo_mode |-> IsDemoMode ]
    ELSE LET today_usage == Get(Get(store, "usage", EmptyDict), today, EmptyDict)
             daily_limits == Get(store, "daily_limits", EmptyDict)
             openai_requests == Get(today_usage, "openai_requests", 0)
             google_requests == Get(today_usage, "google_maps_requests", 0)
             twilio_calls == Get(today_usage, "twilio_calls", 0)
             twilio_minutes == Get(today_usage, "twilio_minutes", 0)
             openai_cost == openai_requests * 20
             google_cost == google_requests * 50
             twilio_cost == twilio_minutes * 130
         IN  [ date |-> today,
               demo_mode |-> IsDemoMode,
               usage |->
                 [ openai_requests |->
                     [ used |-> openai_requests,
                       limit |-> Get(daily_limits, "openai_requests", 50),
                       cost |-> openai_cost ],
                   google_maps_requests |->
                     [ used |-> google_requests,
                       limit |-> Get(daily_limits, "google_maps_requests", 100),
                       cost |-> google_cost ],
                   twilio_calls |->
                     [ used |-> twilio_calls,
                       limit |-> Get(daily_limits, "twilio_calls", 5),
                       minutes |-> twilio_minutes,
                       cost |-> twilio_cost ] ],
               total_cost |-> openai_cost + google_cost + twilio_cost,
               status |-> IF IsDemoMode THEN "demo_mode" ELSE "live" ]

\* The variables a call of the quota tracker leaves alone
untracked == << env_DEMO_MODE, openai_api_key, storeOK, now, cache, reqs,
                last, started, callsToday, clean, tpc, tdata >>

CallCanMakeRequest(request_type) ==
    /\ arg' = [ fn |-> "can_make_request", request_type |-> request_type ]
    /\ ret' = Return(CanMakeRequest(request_type).allowed)
    /\ logged' = CanMakeRequest(request_type).log
    /\ UNCHANGED << untracked, store >>

CallTrackRequest(request_type, cost) ==
    /\ Count(store, today, request_type) < MaxCount
    /\ arg' = [ fn |-> "track_request", request_type |-> request_type,
                cost |-> cost ]
    /\ ret' = Return(None)
    /\ store' = TrackRequest(request_type, cost).store
    /\ logged' = TrackRequest(request_type, cost).log
    /\ UNCHANGED untracked

CallGetUsageReport ==
    /\ arg' = [ fn |-> "get_usage_report" ]
    /\ ret' = Return(GetUsageReport)
    /\ logged' = IF storeOK THEN << >>
                 ELSE << "ERROR Error generating usage report" >>
    /\ UNCHANGED << untracked, store >>

InitUsage ==
    /\ env_DEMO_MODE = "false"
    /\ openai_api_key = FALSE
    /\ store = EarlierData
    /\ storeOK = TRUE
    /\ now = 0
    /\ cache = EmptyDict
    /\ reqs = EmptyBag
    /\ last = Idle
    /\ started = 0
    /\ callsToday = 0
    /\ clean = FALSE
    /\ logged = << >>
    /\ tpc = [ t \in Trackers |-> "idle" ]
    /\ tdata = [ t \in Trackers |-> EmptyDict ]
    /\ arg = [ fn |-> "__init__" ]
    /\ ret = NoReturn

NextUsage ==
    \/ \E request_type \in UsageKinds : CallCanMakeRequest(request_type)
    \/ \E request_type \in UsageKinds : \E cost \in UsageCosts :
          CallTrackRequest(request_type, cost)
    \/ CallGetUsageReport
    \/ ResetDailyUsage
    \/ Tick
    \/ StoreFails
    \/ StoreRecovers

SpecUsage == InitUsage /\ [][NextUsage]_vars

\* reset_daily_usage deleting every day's counters
ResetDailyUsageResult_AllDays ==
    IF ~storeOK
    THEN [ store |-> store, value |-> FALSE,
           log |-> << "ERROR Error resetting usage" >> ]
    ELSE IF today \in DOMAIN Get(store, "usage", EmptyDict)
    THEN [ store |-> [ store EXCEPT !.usage = EmptyDict ],
           value |-> TRUE, log |-> << >> ]
    ELSE [ store |-> store, value |-> FALSE, log |-> << >> ]

\* reset_daily_usage: the store it leaves, the value it returns and what it
\* logs
ResetDailyUsageResult ==
    IF ~storeOK
    THEN [ store |-> store, value |-> FALSE,
           log |-> << "ERROR Error resetting usage" >> ]
    ELSE IF today \in DOMAIN Get(store, "usage", EmptyDict)
    THEN [ store |-> [ store EXCEPT !.usage = Del(store.usage, today) ],
           value |-> TRUE, log |-> << >> ]
    ELSE [ store |-> store, value |-> FALSE, log |-> << >> ]

CallResetDailyUsage ==
    /\ arg' = [ fn |-> "reset_daily_usage" ]
    /\ ret' = Return(ResetDailyUsageResult.value)
    /\ store' = ResetDailyUsageResult.store
    /\ logged' = ResetDailyUsageResult.log
    /\ UNCHANGED untracked

\* The quota tracker with the return value of reset_daily_usage observed
NextReset ==
    \/ CallResetDailyUsage
    \/ \E request_type \in UsageKinds : CallCanMakeRequest(request_type)
    \/ \E request_type \in UsageKinds : \E cost \in UsageCosts :
          CallTrackRequest(request_type, cost)
    \/ Tick
    \/ StoreFails
    \/ StoreRecovers

SpecReset == InitUsage /\ [][NextReset]_vars

\* Usage files whose daily_limits hold all, some or none of the kinds, and
\* one without daily_limits
LimitFiles ==
    { InitialData(1),
      EarlierData,
      [ usage |-> EmptyDict,
        daily_limits |-> [ google_maps_requests |-> 1, twilio_calls |-> 2 ] ],
      [ usage |-> EmptyDict, daily_limits |-> EmptyDict ],
      [ usage |-> EmptyDict ] }

\* The kinds get_usage_report shows a limit of
ReportedKinds == { "openai_requests", "google_maps_requests", "twilio_calls" }

InitLimits ==
    /\ env_DEMO_MODE = "false"
    /\ openai_api_key = FALSE
    /\ store \in LimitFiles
    /\ storeOK = TRUE
    /\ now = 0
    /\ cache = EmptyDict
    /\ reqs = EmptyBag
    /\ last = Idle
    /\ started = 0
    /\ callsToday = 0
    /\ clean = FALSE
    /\ logged = << >>
    /\ tpc = [ t \in Trackers |-> "idle" ]
    /\ tdata = [ t \in Trackers |-> EmptyDict ]
    /\ arg = [ fn |-> "__init__" ]
    /\ ret = NoReturn

NextLimits ==
    \/ \E request_type \in ReportedKinds : CallCanMakeRequest(request_type)
    \/ \E request_type \in ReportedKinds : CallTrackRequest(request_type, 0)
    \/ CallGetUsageReport
    \/ Tick

SpecLimits == InitLimits /\ [][NextLimits]_vars

-----------------------------------------------------------------------------
(* The cache key of analyze_emergency, with hash() as the interpreter       *)
(* computes it: a function of the string into a bounded range of integers,  *)
(* fixed for the life of the process by its hash seed                       *)

\* The number of values hash() takes in the model (2^64 in CPython)
HashValues == 2

\* A message of MESSAGE_PREFIX_LEN times 'a' and then the character c
Padded(c) == [ i \in 1..(MESSAGE_PREFIX_LEN + 1) |->
                 IF i <= MESSAGE_PREFIX_LEN THEN "a" ELSE c ]

\* Two messages that differ in case only, and two that differ only after
\* their first MESSAGE_PREFIX_LEN characters
KeyMessages == { << "H", "i" >>, << "h", "I" >>, Padded("x"), Padded("y") }

\* message.lower()[:100]
KeyPrefix(message) == Take(Lower(message), MESSAGE_PREFIX_LEN)

KeyPrefixes == { KeyPrefix(m) : m \in KeyMessages }

\* The first two round to the same hundredths of a degree
KeyLocations ==
    { [ latitude |-> 40712, longitude |-> -74006, address |-> None ],
      [ latitude |-> 40714, longitude |-> -74008, address |-> None ],
      [ latitude |-> 40716, longitude |-> -74006, address |-> None ] }

KeyScenarios == { "custom-emergency", "heart-attack" }

\* The functions hash() may be in a process, one per hash seed
HashSeeds == [ KeyPrefixes -> 0..(HashValues - 1) ]

\* What the start of the process leaves in `last`: its hash function
ProcessStarted(seed) ==
    [ pc |-> "started", path |-> "none", hash |-> seed,
      response |-> [ status |-> 0 ] ]

\* cache_key of analyze_emergency in the running process
SeededCacheKey(message, location, scenario_type) ==
    << "analysis", scenario_type, last.hash[KeyPrefix(message)],
       Round2(location.latitude), Round2(location.longitude) >>

\* The analysis computed for a request, named by the request
AnalysisOf(message, location, scenario_type) ==
    [ message |-> message, location |-> location,
      scenario_type |-> scenario_type ]

\* analyze_emergency without an API key (lines 211-243): the cached result
\* if the lookup finds one, else the rule-based analysis, which it caches
CallAnalyzeEmergency(message, location, scenario_type, force_new) ==
    LET key == SeededCacheKey(message, location, scenario_type)
        got == CacheLookup(force_new, key)
        result == AnalysisOf(message, location, scenario_type)
    IN  /\ started < MaxRequests
        /\ started' = started + 1
        /\ arg' = [ fn |-> "analyze_emergency", message |-> message,
                    location |-> location, scenario_type |-> scenario_type,
                    force_new |-> force_new ]
        /\ IF got.found
           THEN /\ ret' = Return([ hit |-> TRUE, result |-> got.data ])
                /\ cache' = got.cache
                /\ logged' = << "INFO Cache hit for emergency analysis" >>
           ELSE /\ ret' = Return([ hit |-> FALSE, result |-> result ])
                /\ cache' = CacheSet(got.cache, key, result,
                                     CACHE_TTL_SECONDS, now)
                /\ logged' = << >>
        /\ UNCHANGED << env_DEMO_MODE, openai_api_key, store, storeOK, now,
                        reqs, last, callsToday, clean, tpc, tdata >>

\* Time passes in the process
KeyTick ==
    /\ now + TickSeconds <= MaxTicks * TickSeconds
    /\ now' = now + TickSeconds
    /\ logged' = << >>
    /\ UNCHANGED << env_DEMO_MODE, openai_api_key, store, storeOK, cache,
                    reqs, last, started, callsToday, clean, tpc, tdata,
                    arg, ret >>

InitKey ==
    /\ env_DEMO_MODE = "true"
    /\ openai_api_key = FALSE
    /\ store = InitialData(1)
    /\ storeOK = TRUE
    /\ now = 0
    /\ cache = EmptyDict
    /\ reqs = EmptyBag
    /\ \E seed \in HashSeeds : last = ProcessStarted(seed)
    /\ started = 0
    /\ callsToday = 0
    /\ clean = FALSE
    /\ logged = << >>
    /\ tpc = [ t \in Trackers |-> "idle" ]
    /\ tdata = [ t \in Trackers |-> EmptyDict ]
    /\ arg = [ fn |-> "__init__" ]
    /\ ret = NoReturn

NextKey ==
    \/ \E message \in KeyMessages, location \in KeyLocations,
          scenario_type \in KeyScenarios, force_new \in BOOLEAN :
          CallAnalyzeEmergency(message, location, scenario_type, force_new)
    \/ KeyTick

SpecKey == InitKey /\ [][NextKey]_vars

-----------------------------------------------------------------------------
(* Properties *)

ResultFields ==
    { "emergency_type", "severity", "assessment", "recommendations",
      "first_aid_steps", "warning_signs", "estimated_response_time",
      "emergency_number", "accident_type", "first_aid_tips", "location",
      "details", "severity_level", "recommended_actions",
      "response_time_needed", "priority_level" }

\* The analysis fields of an answer's body, without what the handler added
Analysis(body) == [ f \in ResultFields |-> body[f] ]

FailureKinds == { "status", "timeout", "error" }

\* Today's stored count of a kind, a missing count being 0
StoredCount(kind) ==
    IF "usage" \in DOMAIN store
    THEN IF today \in DOMAIN store.usage
         THEN IF kind \in DOMAIN store.usage[today]
              THEN store.usage[today][kind]
              ELSE 0
         ELSE 0
    ELSE 0

\* The configured daily limit of a kind, a missing limit being 0
ConfiguredLimit(kind) ==
    IF "daily_limits" \in DOMAIN store
    THEN IF kind \in DOMAIN store.daily_limits
         THEN store.daily_limits[kind]
         ELSE 0
    ELSE 0

\* The kinds the handlers use and one no file configures
AnyKinds == Kinds \cup { "sms_messages" }

\* The key of the request answered by the last step
LastKey == CacheKey(last.message, last.location, last.scenario_type)

\* C1: every request that reaches analyze_emergency is answered with status
\* 200 and a dict holding every result field, whatever became of the provider
\* request; when the provider request failed (non-200 status, timeout,
\* malformed reply, other exception) the analysis in the answer is the
\* rule-based classifier's for that message and location.
C1_AlwaysAnswered ==
    (last.pc = "done" /\ last.path # "rejected") =>
        /\ last.response.status = 200
        /\ ResultFields \subseteq DOMAIN last.response.body
        /\ last.outcome.kind \in FailureKinds =>
              Analysis(last.response.body)
                  = EnhancedRuleBasedAnalysis(last.message, last.location)

C1_Witness ==
    /\ last.pc = "done"
    /\ last.path = "ai_failed"
    /\ last.outcome.kind = "timeout"
    /\ last.response.status = 200

\* C2 (as claimed): a request answered from the cache returns the analysis
\* the cache held, sends nothing to the provider and leaves the stored count
\* of openai_requests as it was.
C2_CacheHitIsFree ==
    [][ (last'.pc = "done" /\ last'.path = "cache") =>
           LET key == CacheKey(last'.message, last'.location, last'.scenario_type)
           IN  /\ Analysis(last'.response.body) = Analysis(cache[key].data)
               /\ callsToday' = callsToday
               /\ StoredCount("openai_requests")' = StoredCount("openai_requests") ]_vars

\* C3 (as claimed): on a day on which demo mode was off and the store
\* readable throughout and nobody reset the counters, the provider requests
\* started that day never outnumber the daily limit of openai_requests.
C3_QuotaNeverExceeded ==
    clean => callsToday <= ConfiguredLimit("openai_requests")

\* C4 (as claimed): when NumTrackers concurrent track_request calls that
\* started from a stored count of 0 have all ended, the stored count is
\* NumTrackers.
C4_NoLostUpdate ==
    (\A t \in Trackers : tpc[t] = "done") =>
        (storeOK /\ StoredCount("openai_requests") = NumTrackers)

\* C5 (as claimed): no step taken while is_demo_mode() is true sends a
\* request to the language-model provider.
C5_NoProviderCallInDemoMode ==
    [][ IsDemoMode => callsToday' <= callsToday ]_vars

\* C6: in demo mode can_make_request answers true for every resource kind,
\* whatever the stored counts and limits and whether or not the store can be
\* read.
C6_DemoModeAllowsAll ==
    IsDemoMode => \A kind \in AnyKinds : CanMakeRequest(kind).allowed

C6_Witness ==
    /\ IsDemoMode
    /\ ~storeOK
    /\ CanMakeRequest("twilio_calls").allowed
    /\ StoredCount("twilio_calls") >= ConfiguredLimit("twilio_calls")

\* C7: with demo mode off and the store readable, can_make_request(kind) is
\* true exactly when today's stored count of kind (0 if missing) is below the
\* configured limit of kind (0 if missing), so an unconfigured kind is blocked.
C7_AllowedIffBelowLimit ==
    (~IsDemoMode /\ storeOK) =>
        \A kind \in AnyKinds :
            /\ CanMakeRequest(kind).allowed
                  <=> (StoredCount(kind) < ConfiguredLimit(kind))
            /\ kind \notin DOMAIN store.daily_limits => ~CanMakeRequest(kind).allowed

C7_Witness ==
    /\ ~IsDemoMode
    /\ storeOK
    /\ StoredCount("openai_requests") = 1
    /\ ConfiguredLimit("openai_requests") = 1
    /\ ~CanMakeRequest("openai_requests").allowed
    /\ CanMakeRequest("google_maps_requests").allowed
    /\ ~CanMakeRequest("twilio_minutes").allowed

\* C8: with demo mode off and the store unreadable, can_make_request answers
\* true for every kind and logs an error; a request that arrived then and was
\* answered at once was admitted, and the error is in what its step logged.
C8_FailsOpenAndLogs ==
    (~IsDemoMode /\ ~storeOK) =>
        /\ \A kind \in AnyKinds :
              /\ CanMakeRequest(kind).allowed
              /\ "ERROR Error checking request limits"
                     \in Range(CanMakeRequest(kind).log)
        /\ (last.pc = "done" /\ last.path \in { "rejected", "cache", "rule" }) =>
              /\ "ERROR Error checking request limits" \in Range(logged)
              /\ last.path # "rejected"

C8_Witness ==
    /\ ~IsDemoMode
    /\ ~storeOK
    /\ last.pc = "done"
    /\ last.response.status = 200
    /\ "ERROR Error checking request limits" \in Range(logged)

\* The times of the model's clock, and two ticks beyond
Times == { i * TickSeconds : i \in 0..(MaxTicks + 2) }

\* C9: get returns an entry's data at every time before its expiry and
\* leaves the map alone; at the expiry and at every time after it get returns
\* nothing and leaves a map without the entry; the entry a request's answer
\* was just written to expires CACHE_TTL_SECONDS after the time of writing.
C9_CacheTTL ==
    /\ \A key \in DOMAIN cache : \A t \in Times :
          LET got == CacheGet(cache, key, t)
          IN  IF t < cache[key].expires
              THEN got.found /\ got.data = cache[key].data /\ got.cache = cache
              ELSE ~got.found /\ key \notin DOMAIN got.cache
    /\ (last.pc = "done" /\ last.path \in { "rule", "ai", "ai_failed" }) =>
          /\ LastKey \in DOMAIN cache
          /\ cache[LastKey].expires = now + CACHE_TTL_SECONDS

C9_Witness ==
    \E key \in DOMAIN cache :
        /\ now >= cache[key].expires
        /\ ~CacheGet(cache, key, now).found
        /\ CacheGet(cache, key, now - TickSeconds).found

\* C10: a request with force_new that is admitted is never answered from the
\* cache, also when a live entry exists for its key: its answer is the fresh
\* analysis, the cache then holds that answer under the key with a new TTL,
\* and a get for the key returns it.
C10_ForceRefresh ==
    (last.pc = "done" /\ last.force_new /\ last.path # "rejected") =>
        LET fresh == IF last.path = "rule"
                     THEN EnhancedRuleBasedAnalysis(last.message, last.location)
                     ELSE AiAnalysis(last.message, last.location,
                                     last.scenario_type, last.outcome).result
            got == CacheGet(cache, LastKey, now)
        IN  /\ last.path \in { "rule", "ai", "ai_failed" }
            /\ Analysis(last.response.body) = fresh
            /\ last.response.body.timestamp = now
            /\ LastKey \in DOMAIN cache
            /\ cache[LastKey].data = last.response.body
            /\ cache[LastKey].expires = now + CACHE_TTL_SECONDS
            /\ got.found
            /\ got.data = last.response.body

C10_Witness ==
    /\ last.pc = "done"
    /\ last.force_new
    /\ last.live_entry
    /\ last.path = "ai"
    /\ last.response.status = 200
    /\ LastKey \in DOMAIN cache
    /\ cache[LastKey].data = last.response.body

\* C11: set puts the given data under the key with a new expiry whatever
\* the cache held there and leaves the other keys alone; when a request's
\* fresh answer has been written, also after another request wrote the same
\* key while this one awaited the provider, the cache holds this answer and
\* a get at any time within the TTL returns it.
C11_LastWriteWins ==
    /\ \A key \in DOMAIN cache \cup { << "other" >> } :
          \A data \in { EmptyDict, [ severity |-> "low" ] } :
              LET c == CacheSet(cache, key, data, CACHE_TTL_SECONDS, now)
              IN  /\ DOMAIN c = DOMAIN cache \cup { key }
                  /\ c[key] = [ data |-> data, expires |-> now + CACHE_TTL_SECONDS ]
                  /\ \A k \in DOMAIN cache \ { key } : c[k] = cache[k]
    /\ (last.pc = "done" /\ last.path \in { "rule", "ai", "ai_failed" }) =>
          /\ LastKey \in DOMAIN cache
          /\ cache[LastKey].data = last.response.body
          /\ \A t \in Times :
                (now <= t /\ t < now + CACHE_TTL_SECONDS) =>
                    /\ CacheGet(cache, LastKey, t).found
                    /\ CacheGet(cache, LastKey, t).data = last.response.body

\* Both requests have been answered and counted, the one answered last did
\* not ask for a fresh analysis and found no entry when it arrived, and no
\* entry can have expired yet: the other request was awaiting the provider
\* for the same key at that time
C11_Witness ==
    /\ last.pc = "done"
    /\ last.path = "ai"
    /\ ~last.force_new
    /\ ~last.live_entry
    /\ reqs = EmptyBag
    /\ started = 2
    /\ StoredCount("openai_requests") = 2
    /\ now < CACHE_TTL_SECONDS
    /\ cache[LastKey].data = last.response.body

\* C12 (as claimed): after a request was answered with a fresh analysis, a
\* get for its key returns the analysis as analyze_emergency returned it,
\* without the performance and timestamp the handler wrote into its answer.
C12_CacheHoldsCopy ==
    (last.pc = "done" /\ last.path \in { "rule", "ai", "ai_failed" }) =>
        LET got == CacheGet(cache, LastKey, now)
        IN  /\ got.found
            /\ DOMAIN got.data = ResultFields
            /\ got.data = Analysis(last.response.body)

\* C13 (as claimed): every answer with an analysis, on whichever path it was
\* made, has a severity among critical, high, moderate and low, a category
\* that is not empty and at most MAX_FIRST_AID first-aid steps.
C13_ResultInvariants ==
    (last.pc = "done" /\ last.response.status = 200) =>
        /\ last.response.body.severity \in { "critical", "high", "moderate", "low" }
        /\ last.response.body.emergency_type # ""
        /\ Len(last.response.body.first_aid_steps) <= MAX_FIRST_AID

\* Every keyword of the two severity lists and of the category table
AllKeywords ==
    Range(critical_words) \cup Range(high_words)
        \cup UNION { Range(emergency_patterns[i].keywords) :
                       i \in DOMAIN emergency_patterns }

\* Some word of the set occurs in the lower-cased message
Mentions(message, words) == \E w \in words : Contains(Lower(message), w)

\* C14: _enhanced_rule_based_analysis returns, for every message, the empty
\* one included, a dict with every result field, none of them None; for a
\* message in which no keyword of any table occurs the category is
\* 'General Emergency' and the severity 'moderate'.
C14_ClassifierTotal ==
    (arg.fn = "_enhanced_rule_based_analysis" /\ ret.returned) =>
        /\ DOMAIN ret.value = ResultFields
        /\ \A f \in ResultFields : ret.value[f] # None
        /\ ~Mentions(arg.message, AllKeywords) =>
              /\ ret.value.emergency_type = "General Emergency"
              /\ ret.value.accident_type = "General Emergency"
              /\ ret.value.severity = "moderate"
              /\ ret.value.severity_level = "moderate"

C14_Witness ==
    /\ arg.fn = "_enhanced_rule_based_analysis"
    /\ arg.message = << >>
    /\ ret.returned
    /\ ret.value.emergency_type = "General Emergency"
    /\ ret.value.severity = "moderate"

\* C15: the severity is critical if a critical keyword occurs in the
\* lower-cased message, whether or not a high keyword occurs too; high only
\* if no critical keyword and at least one high keyword occurs; moderate
\* otherwise.
C15_SeverityTiers ==
    (arg.fn = "_quick_severity_check" /\ ret.returned) =>
        LET crit == Mentions(arg.message, Range(critical_words))
            high == Mentions(arg.message, Range(high_words))
        IN  /\ ret.value \in { "critical", "high", "moderate" }
            /\ (ret.value = "critical") = crit
            /\ (ret.value = "high") = (~crit /\ high)
            /\ (ret.value = "moderate") = (~crit /\ ~high)

\* 'Chest pain' holds the critical keyword 'chest pain' and the high keyword
\* 'pain'
C15_Witness ==
    /\ arg.fn = "_quick_severity_check"
    /\ arg.message = MsgChest
    /\ Mentions(arg.message, Range(critical_words))
    /\ Mentions(arg.message, Range(high_words))
    /\ ret.returned
    /\ ret.value = "critical"

\* The order in which the categories are declared
DeclaredOrder ==
    << "Cardiac Emergency", "Respiratory Emergency", "Vehicle Accident",
       "Fall Injury", "Burn Injury", "Bleeding/Laceration", "Stroke",
       "Allergic Reaction" >>

\* The keywords of a category
KeywordsOf(type) ==
    UNION { Range(emergency_patterns[i].keywords) :
              i \in { j \in DOMAIN emergency_patterns :
                        emergency_patterns[j].type = type } }

C17_FirstAidCap ==
    (arg.fn = "_get_enhanced_first_aid_tips" /\ ret.returned) =>
        LET base == Get(tips_map, arg.accident_type, default_tips)
            tips == ret.value
        IN  /\ Len(tips) <= MAX_FIRST_AID
            /\ IF arg.severity = "critical"
               THEN /\ Len(tips) = Min(Len(base) + 1, MAX_FIRST_AID)
                    /\ tips[1] = base[1]
                    /\ tips[2] = "Be prepared to perform CPR"
                    /\ \A i \in 3..Len(tips) : tips[i] = base[i - 1]
               ELSE /\ Len(tips) = Min(Len(base), MAX_FIRST_AID)
                    /\ \A i \in 1..Len(tips) : tips[i] = base[i]

\* A critical call for a category with six tips: the sixth is dropped
C17_Witness ==
    /\ arg.fn = "_get_enhanced_first_aid_tips"
    /\ arg.severity = "critical"
    /\ arg.accident_type = "Cardiac Emergency"
    /\ Len(tips_map[arg.accident_type]) = MAX_FIRST_AID
    /\ ret.returned
    /\ Len(ret.value) = MAX_FIRST_AID
    /\ ret.value[2] = "Be prepared to perform CPR"
    /\ ret.value[MAX_FIRST_AID] = tips_map[arg.accident_type][MAX_FIRST_AID - 1]

\* C18 (as claimed): in every result the handler returns, the priority label
\* is the one the fixed mapping gives for the result's severity, on the AI
\* path as on the rule-based path.
C18_PriorityFromSeverity ==
    ( /\ last.pc = "done"
      /\ last.response.status = 200
      /\ last.response.body.severity \in DOMAIN priority_map ) =>
        last.response.body.priority_level
            = priority_map[last.response.body.severity]

\* C20 (as claimed): a request to /emergency/analyze that the quota gate
\* refuses (demo mode off, the day's openai_requests used up) is answered
\* with status 429 and the detail 'Daily OpenAI request limit reached'.
C20_QuotaErrorSurfaced ==
    (last.pc = "done" /\ last.path = "rejected") =>
        /\ last.response.status = 429
        /\ last.response.detail = "Daily OpenAI request limit reached"

C21_CriticalEmergencyType ==
    ( /\ arg.fn = "_enhanced_rule_based_analysis"
      /\ ret.returned
      /\ Mentions(arg.message, Range(critical_words)) ) =>
        ret.value.accident_type = "CRITICAL_EMERGENCY"

\* C22: no step of can_make_request, track_request or get_usage_report, nor
\* of the clock or of the file becoming unreadable and readable, lowers or
\* removes the stored count of any (kind, day); a step that does is a
\* reset_daily_usage.
C22_CountsNeverDecrease ==
    [][ (\E day \in Days : \E kind \in AnyKinds :
            Count(store', day, kind) < Count(store, day, kind))
        => ResetDailyUsage ]_vars

\* Two requests tracked on top of the earlier run's count of another kind
C22_Witness ==
    /\ arg.fn = "track_request"
    /\ storeOK
    /\ Count(store, today, "openai_requests") = 2
    /\ Count(store, today, "twilio_calls") = 1

\* C23: the answer of can_make_request is given by the count stored under
\* the current date alone; when the date changes, every kind with a positive
\* limit is allowed; and no step, track_request and reset_daily_usage
\* included, changes what is stored under a date other than the current one.
C23_OnlyTodayCounts ==
    [][ /\ (storeOK' /\ ~IsDemoMode') =>
              \A kind \in AnyKinds :
                  CanMakeRequest(kind)'.allowed
                      = ( Count(store', DayOf(now'), kind)
                            < Get(Get(store', "daily_limits", EmptyDict), kind, 0) )
        /\ (DayOf(now') # DayOf(now) /\ storeOK) =>
              \A kind \in AnyKinds :
                  ConfiguredLimit(kind) > 0 => CanMakeRequest(kind)'.allowed
        /\ \A day \in Days \ { today } :
              /\ day \in DOMAIN Get(store, "usage", EmptyDict)
                    <=> day \in DOMAIN Get(store', "usage", EmptyDict)
              /\ Get(Get(store', "usage", EmptyDict), day, EmptyDict)
                    = Get(Get(store, "usage", EmptyDict), day, EmptyDict)
      ]_vars

\* The day after the openai_requests limit was reached, with a request of
\* the new day tracked: the kind was allowed and the old count is there
C23_Witness ==
    /\ storeOK
    /\ today = 2
    /\ Count(store, 1, "openai_requests") = ConfiguredLimit("openai_requests")
    /\ Count(store, 1, "twilio_calls") = 1
    /\ Count(store, 2, "openai_requests") = 0
    /\ Count(store, 2, "twilio_calls") = 1
    /\ arg.fn = "can_make_request"
    /\ arg.request_type = "openai_requests"
    /\ ret.value = TRUE

\* C24 (as claimed): a request with force-refresh off whose fingerprint has
\* a live cache entry when it arrives is answered 200 from the cache, also
\* when demo mode is off and the openai_requests quota is used up.
C24_CacheHitBypassesQuota ==
    (last.pc = "done" /\ ~last.force_new /\ last.live_entry) =>
        /\ last.path = "cache"
        /\ last.response.status = 200

\* C25 (as claimed): a request that finds no cache hit and arrives with demo
\* mode off and the openai_requests quota used up is answered 200 with the
\* rule-based classifier's analysis of its message and location.
C25_ExhaustedQuotaFallsBack ==
    ( /\ last.pc = "done"
      /\ last.path = "rejected"
      /\ ~(last.live_entry /\ ~last.force_new) ) =>
        /\ last.response.status = 200
        /\ Analysis(last.response.body)
              = EnhancedRuleBasedAnalysis(last.message, last.location)

\* C26 (as claimed): the step that answers a request whose provider request
\* failed (non-200 status, timeout, malformed reply or other error) with the
\* rule-based result leaves today's stored openai_requests count as it was.
C26_FailedAttemptNotCounted ==
    [][ (last'.pc = "done" /\ last'.path = "ai_failed") =>
            StoredCount("openai_requests")' = StoredCount("openai_requests")
      ]_vars

\* C27: when a request has been answered 200 and not from the cache, on the
\* rule-based path, the AI path or after a failed provider request, the
\* cache holds the returned result under the request's fingerprint with an
\* expiry CACHE_TTL_SECONDS after the time of the answer.
C27_ResultCachedOnEveryPath ==
    (last.pc = "done" /\ last.response.status = 200 /\ last.path # "cache") =>
        /\ last.path \in { "rule", "ai", "ai_failed" }
        /\ LastKey \in DOMAIN cache
        /\ cache[LastKey].expires = now + CACHE_TTL_SECONDS
        /\ cache[LastKey].data = last.response.body
        /\ ResultFields \subseteq DOMAIN cache[LastKey].data

\* A request answered by the classifier after its provider request failed,
\* some time after the service started
C27_Witness ==
    /\ last.pc = "done"
    /\ last.path = "ai_failed"
    /\ last.outcome.kind = "timeout"
    /\ now > 0
    /\ LastKey \in DOMAIN cache
    /\ cache[LastKey].expires = now + CACHE_TTL_SECONDS

\* C28: at most one request is sent to the provider for an analyze request:
\* every request that awaits the provider has sent one, an answered request
\* has sent one if it had a provider outcome and none otherwise, also after a
\* timeout, a non-200 status or an unparseable reply; so the provider
\* requests sent today never outnumber the analyze requests received.
C28_AtMostOneProviderCall ==
    /\ \A req \in BagToSet(reqs) : req.attempts = 1
    /\ last.pc = "done" =>
          /\ last.attempts <= 1
          /\ last.attempts = (IF last.outcome = NoOutcome THEN 0 ELSE 1)
    /\ callsToday <= started

\* Two requests received, the one just answered after its provider request
\* timed out
C28_Witness ==
    /\ last.pc = "done"
    /\ last.outcome.kind = "timeout"
    /\ last.attempts = 1
    /\ started = 2
    /\ callsToday = 2
    /\ reqs # EmptyBag

\* C29 (as claimed): for a provider request that failed, what _ai_analysis
\* hands back is a failure, not an analysis: it either raises or returns
\* something that is not a result dict, and never the rule-based result.
C29_AdapterReportsFailure ==
    (last.pc = "done" /\ last.outcome.kind \in FailureKinds) =>
        LET ai == AiAnalysis(last.message, last.location, last.scenario_type,
                             last.outcome)
        IN  \/ ai.raised
            \/ /\ ~(ResultFields \subseteq DOMAIN ai.result)
               /\ ai.result # EnhancedRuleBasedAnalysis(last.message, last.location)

\* C30 (as claimed): whatever fields the provider's successful reply omits,
\* the result has every result field, an omitted severity is 'moderate', an
\* omitted category 'Emergency Situation', an omitted list of
\* recommendations, first-aid steps or warning signs a non-empty default,
\* and first_aid_tips equals first_aid_steps, recommended_actions equals
\* recommendations and severity_level equals severity.
C30_DefaultsAndDuplicates ==
    (last.pc = "done" /\ last.path = "ai") =>
        LET reply == last.outcome.reply
            result == last.response.body
        IN  /\ ResultFields \subseteq DOMAIN result
            /\ "severity" \notin DOMAIN reply => result.severity = "moderate"
            /\ "emergency_type" \notin DOMAIN reply =>
                  result.emergency_type = "Emergency Situation"
            /\ \A f \in { "recommendations", "first_aid_steps", "warning_signs" } :
                  f \notin DOMAIN reply => result[f] # << >>
            /\ result.severity_level = result.severity
            /\ result.first_aid_tips = result.first_aid_steps
            /\ result.recommended_actions = result.recommendations

\* C31: every analyze request is answered: a request that does not go to the
\* provider is answered in the step that receives it, and whenever requests
\* await the provider, a state follows in which none does, each of them
\* having left by being answered.
C31_EveryRequestCompletes ==
    /\ [][ started' = started + 1 =>
              \/ last'.pc = "done" /\ last'.response.status \in { 200, 500 }
              \/ BagCardinality(reqs') = BagCardinality(reqs) + 1 ]_vars
    /\ [][ BagCardinality(reqs') < BagCardinality(reqs) =>
              ( /\ BagCardinality(reqs') = BagCardinality(reqs) - 1
                /\ last'.pc = "done"
                /\ last'.attempts = 1
                /\ last'.response.status \in { 200, 500 } ) ]_vars
    /\ (reqs # EmptyBag) ~> (reqs = EmptyBag)

\* Two requests await the provider together
C31_Witness ==
    /\ BagCardinality(reqs) = 2
    /\ started = 2

\* C32: a request to a gated endpoint that arrives with demo mode off, the
\* store readable and today's count of the endpoint's kind at or above its
\* limit does not invoke the endpoint's operation (analysis and provider
\* request, hospital search, hospital call, emergency contact) and leaves
\* the store, every usage counter in it, as it was.
C32_RefusedRequestIsFree ==
    [][ \A e \in DOMAIN GateKind :
          ( /\ started' = started + 1
            /\ ~IsDemoMode
            /\ storeOK
            /\ StoredCount(GateKind[e]) >= ConfiguredLimit(GateKind[e])
            /\ \/ last'.pc = "done" /\ last'.endpoint = e
               \/ last'.pc = "idle" /\ e = "/emergency/analyze" ) =>
              /\ last'.pc = "done"
              /\ ~last'.invoked
              /\ store' = store
              /\ reqs' = reqs
              /\ callsToday' = callsToday
              /\ cache' = cache
      ]_vars

\* A hospital call refused after an analysis was refused
C32_Witness ==
    /\ ~IsDemoMode
    /\ storeOK
    /\ last.pc = "done"
    /\ last.endpoint = "/call-hospital"
    /\ last.path = "rejected"
    /\ ~last.invoked
    /\ StoredCount("twilio_calls") = 1
    /\ StoredCount("openai_requests") = 1
    /\ started = 2

\* C33: a track_request(kind, cost) that succeeds raises today's count of
\* kind by exactly 1 (from 0 if there was none), adds cost to '<kind>_cost'
\* only when cost > 0, and leaves every other counter of today, every other
\* day and the daily limits as they were; can_make_request and
\* get_usage_report leave the store as it was.
C33_TrackRequestFrame ==
    [][ /\ \A k \in UsageKinds, c \in UsageCosts :
             ( CallTrackRequest(k, c) /\ storeOK ) =>
                LET usage0 == Get(store, "usage", EmptyDict)
                    usage1 == Get(store', "usage", EmptyDict)
                    day0 == Get(usage0, today, EmptyDict)
                    day1 == Get(usage1, today, EmptyDict)
                IN  /\ today \in DOMAIN usage1
                    /\ k \in DOMAIN day1
                    /\ day1[k] = Get(day0, k, 0) + 1
                    /\ IF c > 0
                       THEN /\ CostKey(k) \in DOMAIN day1
                            /\ day1[CostKey(k)] = Get(day0, CostKey(k), 0) + c
                       ELSE /\ (CostKey(k) \in DOMAIN day1)
                                 = (CostKey(k) \in DOMAIN day0)
                            /\ Get(day1, CostKey(k), 0) = Get(day0, CostKey(k), 0)
                    /\ DOMAIN day1 \ { k, CostKey(k) }
                         = DOMAIN day0 \ { k, CostKey(k) }
                    /\ \A j \in DOMAIN day0 \ { k, CostKey(k) } :
                          day1[j] = day0[j]
                    /\ DOMAIN usage1 = DOMAIN usage0 \cup { today }
                    /\ \A d \in DOMAIN usage0 \ { today } :
                          usage1[d] = usage0[d]
                    /\ DOMAIN store' = DOMAIN store \cup { "usage" }
                    /\ \A f \in DOMAIN store \ { "usage" } :
                          store'[f] = store[f]
        /\ ( \/ \E k \in UsageKinds : CallCanMakeRequest(k)
             \/ CallGetUsageReport ) => store' = store
      ]_vars

\* A second request with a cost tracked on the second day, the first day's
\* counters being in the store
C33_Witness ==
    /\ arg.fn = "track_request"
    /\ arg.request_type = "openai_requests"
    /\ arg.cost = 1
    /\ storeOK
    /\ today = 2
    /\ Count(store, 2, "openai_requests") = 2
    /\ Count(store, 2, "openai_requests_cost") = 1
    /\ Count(store, 2, "twilio_calls") = 1
    /\ Count(store, 1, "twilio_calls") = 1

\* C34: reset_daily_usage returns true exactly when the readable store had
\* an entry for today, which it removes whole; otherwise it returns false
\* and changes nothing; it never alters another day's entry or the limits;
\* and in the state a successful reset leaves, can_make_request (demo mode
\* off) allows every kind whose limit is positive.
C34_ResetDailyUsage ==
    [][ CallResetDailyUsage =>
          LET usage0 == Get(store, "usage", EmptyDict)
              usage1 == Get(store', "usage", EmptyDict)
              existed == storeOK /\ today \in DOMAIN usage0
          IN  /\ ret'.returned
              /\ ret'.value = existed
              /\ ~existed => store' = store
              /\ existed =>
                    /\ today \notin DOMAIN usage1
                    /\ \A k \in AnyKinds :
                          /\ Count(store', today, k) = 0
                          /\ ConfiguredLimit(k)' > 0 =>
                                CanMakeRequest(k)'.allowed
              /\ DOMAIN usage0 \ { today } \subseteq DOMAIN usage1
              /\ DOMAIN usage1 \subseteq DOMAIN usage0
              /\ \A d \in DOMAIN usage0 \ { today } : usage1[d] = usage0[d]
              /\ DOMAIN store' = DOMAIN store
              /\ \A f \in DOMAIN store \ { "usage" } : store'[f] = store[f]
      ]_vars

\* A reset on the second day that found an entry, the first day's entry
\* staying in the store
C34_Witness ==
    /\ arg.fn = "reset_daily_usage"
    /\ ret = Return(TRUE)
    /\ storeOK
    /\ today = 2
    /\ 2 \notin DOMAIN store.usage
    /\ 1 \in DOMAIN store.usage

\* C35 (as claimed): once a track_request was interrupted and no other call
\* is in the middle of its write, the usage file is readable, holds the
\* limits and the counts of other kinds it held before, and the quota check
\* still refuses twilio_calls, whose count was at its limit.
C35_InterruptedTrackKeepsStore ==
    ( /\ \E t \in Trackers : tpc[t] = "failed"
      /\ \A t \in Trackers : tpc[t] # "writing" ) =>
        /\ storeOK
        /\ Get(store, "daily_limits", EmptyDict) = EarlierData.daily_limits
        /\ StoredCount("twilio_calls") = 1
        /\ ~CanMakeRequest("twilio_calls").allowed

\* C36 (as claimed): a result that analyze_emergency returns from the cache
\* was computed for a request with the scenario tag, the lower-cased first
\* MESSAGE_PREFIX_LEN characters and the latitude and longitude rounded to
\* two decimals of the request it is returned to.
C36_CachedResultMatchesRequest ==
    ( /\ arg.fn = "analyze_emergency"
      /\ ret.returned
      /\ ret.value.hit ) =>
        /\ ret.value.result.scenario_type = arg.scenario_type
        /\ KeyPrefix(ret.value.result.message) = KeyPrefix(arg.message)
        /\ Round2(ret.value.result.location.latitude)
             = Round2(arg.location.latitude)
        /\ Round2(ret.value.result.location.longitude)
             = Round2(arg.location.longitude)

\* C37 (as claimed): the limit get_usage_report shows for a kind is the
\* limit can_make_request enforces for it, whatever daily_limits holds, so
\* a kind the report shows with used < limit is allowed by can_make_request.
C37_ReportedLimitIsEnforced ==
    ( /\ storeOK
      /\ ~IsDemoMode
      /\ arg.fn = "get_usage_report"
      /\ ret = Return(GetUsageReport) ) =>
        \A k \in ReportedKinds :
            /\ ret.value.usage[k].limit = ConfiguredLimit(k)
            /\ ret.value.usage[k].used < ret.value.usage[k].limit =>
                  CanMakeRequest(k).allowed

====
